---------------------------- MODULE Spec2Model ----------------------------
(***************************************************************************)
(* Model of the Airbnb host finder (src/src/airbnb/hosts-finder.ts).       *)
(*                                                                         *)
(* main() is one sequential async function.  Every `await` is a step       *)
(* boundary: pc names the await (or loop head) main() is suspended at, and *)
(* each action is the code that runs from one suspension to the next.      *)
(* The collaborators (search endpoint, users endpoint, bootstrap page) are *)
(* the environment: their answers are chosen with \E from bounded sets.    *)
(* makeRequest (the retrying transport) is seen from main() as one call    *)
(* that returns a body or throws after its retries.                        *)
(*                                                                         *)
(* The specifications share the variables:                                 *)
(*   BandSpec      createPricePivotingRanges applied to a ceiling (lines   *)
(*                 191-210)                                                *)
(*   Spec          stage 1, listing discovery (lines 260-426)              *)
(*   DenseSpec     stage 1 answered with large result pages (lines         *)
(*                 279-422)                                                *)
(*   FairDenseSpec DenseSpec with main() always taking its next step       *)
(*   DebugSpec     stage 1 answered with pages that reach the debug cap    *)
(*                 (lines 279-440)                                         *)
(*   LoopSpec      stage 1 against a search endpoint that never runs out   *)
(*                 of pages                                                *)
(*   FairLoopSpec  LoopSpec with main() always taking its next step        *)
(*   GeoSpec       getGeoPolygon applied to an answer of the geocoder      *)
(*                 (lines 160-179)                                         *)
(*   GridSpec      createSmartSearchStrategy applied to a polygon, and the *)
(*                 first turn of the area loop (lines 211-233, 415-416)    *)
(*   ScenarioSpec  stages 1 to 4 against mock collaborators with three     *)
(*                 listings of two hosts                                   *)
(*   PipelineSpec  main() from its first statement to the output file      *)
(*   HostSpec      stages 3 and 4, host resolution and output (lines       *)
(*                 428-548), started from a finished discovery             *)
(*   FairHostSpec  HostSpec with main() always taking its next step        *)
(*   ScraperSpec   the review scrapers (src/src/airbnb/scraper.ts) run     *)
(*                 MaxRuns times over the same input and output            *)
(*                 directories                                             *)
(*   TransportSpec one call of makeRequest, attempt by attempt             *)
(*                 (hosts-finder.ts lines 96-134, scraper.ts lines 95-151  *)
(*                 and 1624-1687)                                          *)
(***************************************************************************)
EXTENDS Integers, Sequences, FiniteSets, TLC

VARIABLES
    pc,                     \* where main() is suspended
    DEBUG_MODE,             \* process.env.DEBUG_MODE === 'true'
    DEBUG_LISTINGS_ONLY,    \* process.env.DEBUG_LISTINGS_ONLY === 'true'
    optThreshold,           \* --threshold <n> as parsed by the hosts command
    apiKey,                 \* credential acquired at start-up
    results,                \* the geocoder's answer as getGeoPolygon parsed it
    geoPolygon,             \* the geojson getGeoPolygon returned
    planCeiling,            \* max handed to createPricePivotingRanges
    planRounding,           \* how max / HISTOGRAM_ITEMS_COUNT was rounded
    priceRanges,            \* the price ranges every area of the plan carries
    cells,                  \* the entries of searchStrategy: center and radius
    searchStrategy,         \* number of search areas of the plan
    radius,                 \* radius parameter of the running searchArea call,
                            \* in quarters of a km
    depth,                  \* depth parameter of the running searchArea call
    subAreas,               \* the subAreas array built for the task processed last
    started,                \* history: the tasks started, in order
    lastResponse,           \* history: what the running task's last request
                            \* came back with
    areaIndex,              \* areas handed to searchArea so far
    rangeIndex,             \* price ranges started in the current area
    searchIndex,            \* tasks started so far
    searchUrl,              \* parameters of the search request being built/sent
    offset,                 \* items_offset of the page being requested
    allListings,            \* items of the pages fetched for the current task
    foundCount,             \* new listings of the task processed last
    discoveredListingIds,   \* Set<string>, in insertion order
    discoveredHostIds,      \* Set<string>, in insertion order
    hostIds,                \* Array.from(discoveredHostIds)
    hostIndex,              \* host ids taken from hostIds so far
    agenciesFound,
    consecutiveHostErrors,
    currentHostApiKey,
    finalHosts,             \* Host[]
    csvRows,                \* rows written to the output file
    keysIssued,             \* credentials handed out by the bootstrap page
    requested,              \* history: host ids a profile request was sent for
    events,                 \* history: outcomes of profile fetches and refreshes
    scraper,                \* which review scraper runs, if one does
    inputDir,               \* the lines of every csv file of the input directory
    outputDir,              \* the json file written for every csv file, if any
    run,                    \* number of the running execution of the scraper
    fileIndex,              \* csv files main() has handed to processCsvFile
    properties,             \* the properties / unique hotels of the current file
    itemIndex,              \* properties / hotels taken from that list so far
    allReviews,             \* processCsvFile's reviews of the current file
    fetchedReviews,         \* the reviews of the property / hotel being fetched
    pageOffset,             \* offset of the review page being requested
    maxOffset,              \* what getMaxOffset returned for the hotel
    lastPage,               \* history: what the last request for the property /
                            \* hotel came to
    fetchLog,               \* history: the (run, file) pairs a request was
                            \* sent for
    processedLog,           \* history: the (run, file) pairs whose property /
                            \* hotel loop has been carried out
    transport,              \* the program whose makeRequest is running, if any
    attempt,                \* makeRequest's loop variable
    attempts,               \* history: what every fetch of the call came to
    delays,                 \* history: the delays the call has slept, in ms
    responseText            \* the body makeRequest returned

vars == <<pc, DEBUG_MODE, DEBUG_LISTINGS_ONLY, optThreshold, apiKey,
          results, geoPolygon, planCeiling, planRounding, priceRanges,
          cells, searchStrategy, radius, depth, subAreas, started, lastResponse,
          areaIndex, rangeIndex, searchIndex, searchUrl,
          offset, allListings, foundCount, discoveredListingIds,
          discoveredHostIds, hostIds, hostIndex, agenciesFound,
          consecutiveHostErrors, currentHostApiKey, finalHosts, csvRows,
          keysIssued, requested, events, scraper, inputDir, outputDir, run,
          fileIndex, properties, itemIndex, allReviews, fetchedReviews,
          pageOffset, maxOffset, lastPage, fetchLog, processedLog, transport,
          attempt,
          attempts, delays, responseText>>

discoveryVars == <<searchStrategy, radius, depth, subAreas, started,
                   lastResponse, areaIndex, rangeIndex, searchIndex,
                   searchUrl, offset, allListings, foundCount>>

planVars == <<results, geoPolygon, planCeiling, planRounding, priceRanges,
             cells>>

\* the state of the review scrapers (src/src/airbnb/scraper.ts), which the
\* host finder never touches
scraperVars == <<scraper, inputDir, outputDir, run, fileIndex, properties,
                 itemIndex, allReviews, fetchedReviews, pageOffset, maxOffset,
                 lastPage, fetchLog, processedLog>>

\* the state of one makeRequest call looked at attempt by attempt
transportVars == <<transport, attempt, attempts, delays, responseText>>

configVars == <<DEBUG_MODE, DEBUG_LISTINGS_ONLY, optThreshold, apiKey,
                planVars, scraperVars, transportVars>>

-----------------------------------------------------------------------------
(* Bounds of the model *)

MaxHosts == 4          \* host ids a finished discovery hands to stage 3
NumProfileIds == 2     \* distinct user ids the users endpoint may answer with
NumCells == 1          \* search areas of the plan
NumListings == 2       \* distinct listing ids the search endpoint may return
NumHosts == 1          \* distinct host ids embedded in search results
MaxTaskItems == 1      \* items the search endpoint returns for one task
MaxCeiling == 40       \* largest small ceiling createPricePivotingRanges is given
MaxTrackedPages == 2   \* pages of a task whose items and offset are told apart
MaxResults == 3        \* results in an answer of the geocoder
MaxGrid == 2           \* side of the lattice the planned polygons lie on
NumFiles == 2          \* csv files of the input directory
MaxUrls == 2           \* data lines of one csv file
NumItems == 2          \* distinct properties / hotels the lines may name
MaxPages == 2          \* review pages a property / hotel has
MaxRuns == 2           \* executions of a scraper over the same directories
NumBodies == 2         \* distinct response bodies a server may send

(* Program constants *)

AGENCY_THRESHOLD == 5
DEBUG_MAX_LISTINGS == 10
DEBUG_MAX_AGENCIES == 3
REFRESH_THRESHOLD == 3
HISTOGRAM_ITEMS_COUNT == 10
PRICE_CEILING == 1000000
PRICE_MAX_PARAM_LIMIT == 1000
PAGE_LIMIT == 50
DENSITY_THRESHOLD == 20
MIN_RADIUS == 2
MAX_DEPTH == 2
LISTING_LIMIT == 40

NoId == 0              \* an id that is missing from the response (falsy)
NoParam == -1          \* a query parameter that was not set

-----------------------------------------------------------------------------
(* Set<string>: has / add keep insertion order and never store an id twice *)

SetHas(s, x) == \E i \in 1..Len(s) : s[i] = x

SetAdd(s, x) == IF SetHas(s, x) THEN s ELSE Append(s, x)

NoDup(s) == \A i, j \in 1..Len(s) : s[i] = s[j] => i = j


-----------------------------------------------------------------------------
(* Geocoding (lines 160-179) *)

\* Positions are the points of the lattice turf.pointGrid lays at the grid
\* spacing.  A polygon is known by the lattice points its bounding box holds
\* (box), those of them that lie within it (inside), and whether it
\* encloses any area at all (flat when it does not: nothing lies within a
\* flat polygon).  A multi-polygon is a sequence of polygons.
LatticeSide == IF MaxGrid > NumCells THEN MaxGrid ELSE NumCells

Lattice ==
    [k \in 1..(LatticeSide * LatticeSide) |->
        <<((k - 1) \div LatticeSide) + 1, ((k - 1) % LatticeSide) + 1>>]

Box(x1, x2, y1, y2) == {<<x, y>> : x \in x1..x2, y \in y1..y2}

\* A polygon that is a row of k lattice squares
Row(k) == [box |-> Box(1, k, 1, 1), inside |-> Box(1, k, 1, 1), flat |-> FALSE]

\* A result of the geocoder carries a geojson member with a type and
\* coordinates, or none.
GeoTypes == {"Point", "LineString", "Polygon", "MultiPolygon"}

NoGeojson == [type |-> "undefined", coordinates |-> Row(0)]

Result(type, place) ==
    [geojson |-> IF type = "undefined" THEN NoGeojson
                 ELSE [type |-> type,
                       coordinates |-> IF type = "MultiPolygon"
                                         THEN <<place>> ELSE place]]

\* line 172: the predicate handed to find
IsValidPolygon(r) ==
    /\ r.geojson # NoGeojson
    /\ r.geojson.type = "Polygon" \/ r.geojson.type = "MultiPolygon"

\* An answer to a query that names a town: the town's centre first, its
\* boundary second, the boundary holding k points of the grid
geocoded(k) == <<Result("Point", Row(0)), Result("Polygon", Row(k))>>

-----------------------------------------------------------------------------
(* Planning (lines 185-234) *)

(* createPricePivotingRanges computes with IEEE doubles.  A number is kept  *)
(* as its exact value, counted in parts of 1/HISTOGRAM_ITEMS_COUNT, plus    *)
(* the rounding error it carries, counted in ulps; an ulp is smaller than   *)
(* any part.  Only the division can round here: max / 10 is a double        *)
(* exactly when it is a binary fraction, that is when 2 * max is a multiple *)
(* of 10; otherwise the double lies below or above the quotient, and the    *)
(* additions built on it may still land on the exact value.                 *)

Num(n) == [parts |-> n * HISTOGRAM_ITEMS_COUNT, ulps |-> 0]

NumAdd(a, b) == [parts |-> a.parts + b.parts, ulps |-> a.ulps + b.ulps]

NumGt(a, b) == \/ a.parts > b.parts
               \/ a.parts = b.parts /\ a.ulps > b.ulps

NumLt(a, b) == NumGt(b, a)

\* String(x) of a number that carries no fraction and no rounding error
Whole(x) == x.parts \div HISTOGRAM_ITEMS_COUNT

\* the ways max / HISTOGRAM_ITEMS_COUNT can come out for a whole max
Roundings(max) ==
    IF (2 * max) % HISTOGRAM_ITEMS_COUNT = 0 THEN {0} ELSE {-1, 0, 1}

\* line 193: max / HISTOGRAM_ITEMS_COUNT, rounded as chosen
Quotient(max, rounding) ==
    [parts |-> max.parts \div HISTOGRAM_ITEMS_COUNT, ulps |-> rounding]

RECURSIVE PivotLoop(_, _, _, _, _, _)
\* lines 199-207: the for loop of createPricePivotingRanges
PivotLoop(i, pivotStart, pivotEnd, intervalSize, max, ranges) ==
    IF i >= HISTOGRAM_ITEMS_COUNT
      THEN ranges
      ELSE LET pushed == Append(ranges, [min |-> pivotStart, max |-> pivotEnd])
           IN IF NumGt(NumAdd(pivotEnd, intervalSize), max)
                THEN pushed
                ELSE PivotLoop(i + 1, NumAdd(pivotStart, intervalSize),
                               NumAdd(pivotEnd, intervalSize),
                               intervalSize, max, pushed)

\* lines 191-210
createPricePivotingRanges(min, max, rounding) ==
    LET intervalSize == Quotient(max, rounding)
    IN PivotLoop(0, min, NumAdd(intervalSize, min), intervalSize, max, <<>>)

\* line 221: every area gets the same ranges; 1000000 / 10 is exact
initialPriceRanges ==
    createPricePivotingRanges(Num(0), Num(PRICE_CEILING), 0)

\* line 215, in km
initialRadius == 5

\* line 211: the polygon handed to turf; of a multi-polygon, the first one
turfPolygon(polygon) ==
    IF polygon.type = "Polygon" THEN polygon.coordinates
    ELSE polygon.coordinates[1]

\* line 212: turf.bbox
bbox(polygon) == polygon.box

\* Mutant: the grid is laid over the bounding box without the mask.
pointGridNoMask(areaBbox, mask) ==
    SelectSeq(Lattice, LAMBDA p : p \in areaBbox)

\* line 216: turf.pointGrid with the mask option: the lattice points of the
\* bounding box that lie within the mask
pointGrid(areaBbox, mask) ==
    SelectSeq(Lattice, LAMBDA p : p \in areaBbox /\ p \in mask.inside)

\* lines 211-231: one entry per point of the grid
Strategy(polygon) ==
    LET searchArea == turfPolygon(polygon)
        grid == pointGrid(bbox(searchArea), searchArea)
    IN [i \in 1..Len(grid) |-> [center |-> grid[i], radius |-> initialRadius]]

\* radii are counted in quarters of a km, so that two halvings of
\* initialRadius stay whole
RadiusUnit == 2 * 2

-----------------------------------------------------------------------------
(* Environment of stage 1: what the search endpoint may answer *)

\* a result item: item.listing.id and item.listing.user.id, NoId when missing
Items == [lid : 0..NumListings, hid : 0..NumHosts]

SeqsUpTo(S, n) == UNION {[1..k -> S] : k \in 0..n}

-----------------------------------------------------------------------------
(* Stage 1: listing discovery (lines 272-426) *)

\* Mutant: every item with a listing id is added and counted as new.
ProcessItemsNoCheck(items, listingIds, ids, count) ==
    LET IsNew(k) == items[k].lid # NoId
        newAt == SelectSeq([k \in 1..Len(items) |-> k], IsNew)
        IsNewHost(k) ==
            /\ items[k].hid # NoId
            /\ ~SetHas(ids, items[k].hid)
            /\ \A i \in 1..Len(newAt) :
                  newAt[i] < k => items[newAt[i]].hid # items[k].hid
        hostAt == SelectSeq(newAt, IsNewHost)
    IN [listings |-> listingIds \o
                       [i \in 1..Len(newAt) |-> items[newAt[i]].lid],
        hosts |-> ids \o [i \in 1..Len(hostAt) |-> items[hostAt[i]].hid],
        found |-> count + Len(newAt)]

\* Mutant: the embedded host id of every item is looked at, whether or not
\* its listing is new.
ProcessItemsAllHosts(items, listingIds, ids, count) ==
    LET IsNew(k) ==
            /\ items[k].lid # NoId
            /\ ~SetHas(listingIds, items[k].lid)
            /\ \A j \in 1..(k - 1) : items[j].lid # items[k].lid
        newAt == SelectSeq([k \in 1..Len(items) |-> k], IsNew)
        IsNewHost(k) ==
            /\ items[k].hid # NoId
            /\ ~SetHas(ids, items[k].hid)
            /\ \A j \in 1..(k - 1) : items[j].hid # items[k].hid
        hostAt == SelectSeq([k \in 1..Len(items) |-> k], IsNewHost)
    IN [listings |-> listingIds \o
                       [i \in 1..Len(newAt) |-> items[newAt[i]].lid],
        hosts |-> ids \o [i \in 1..Len(hostAt) |-> items[hostAt[i]].hid],
        found |-> count + Len(newAt)]

\* lines 352-366: the for loop over allListings.  Item k takes the branch of
\* line 355 (newAt) when its listing id is set, was not in the set before
\* the loop and is not the listing id of an earlier item; there the id is
\* added and counted.  Only an item that takes that branch has its embedded
\* host id looked at, and it takes the branch of line 361 (hostAt) when the
\* host id is set, was not in the set before the loop and is not the host id
\* of an earlier item of newAt.
ProcessItems(items, listingIds, ids, count) ==
    LET IsNew(k) ==
            /\ items[k].lid # NoId
            /\ ~SetHas(listingIds, items[k].lid)
            /\ \A j \in 1..(k - 1) : items[j].lid # items[k].lid
        newAt == SelectSeq([k \in 1..Len(items) |-> k], IsNew)
        IsNewHost(k) ==
            /\ items[k].hid # NoId
            /\ ~SetHas(ids, items[k].hid)
            /\ \A i \in 1..Len(newAt) :
                  newAt[i] < k => items[newAt[i]].hid # items[k].hid
        hostAt == SelectSeq(newAt, IsNewHost)
    IN [listings |-> listingIds \o
                       [i \in 1..Len(newAt) |-> items[newAt[i]].lid],
        hosts |-> ids \o [i \in 1..Len(hostAt) |-> items[hostAt[i]].hid],
        found |-> count + Len(newAt)]

\* Mutant: discovery stops only with more listings than the cap.
DebugCapExceeded(listingIds) ==
    DEBUG_MODE /\ Len(listingIds) > DEBUG_MAX_LISTINGS

\* lines 403, 419: the debug cap on discovered listings
DebugCapReached(listingIds) ==
    DEBUG_MODE /\ Len(listingIds) >= DEBUG_MAX_LISTINGS

hostVars == <<hostIds, hostIndex, agenciesFound, consecutiveHostErrors,
              currentHostApiKey, finalHosts, csvRows, keysIssued, requested,
              events>>

NoResponse == [failed |-> FALSE, more |-> FALSE, count |-> 0]

NoSearchUrl == [price_min |-> NoParam, price_max |-> NoParam,
                items_offset |-> NoParam, key |-> NoParam]

\* lines 279-282: searchArea is entered with a radius and a depth
SearchAreaCall(r, d) ==
    /\ pc = "areaLoop"
    /\ areaIndex < searchStrategy
    /\ areaIndex' = areaIndex + 1
    /\ rangeIndex' = 0
    /\ radius' = r
    /\ depth' = d
    /\ pc' = "rangeLoop"
    /\ UNCHANGED <<configVars, searchStrategy, subAreas, started,
                   lastResponse, searchIndex, searchUrl, offset,
                   allListings, foundCount, discoveredListingIds,
                   discoveredHostIds, hostVars>>

\* lines 415-416: main hands the next area to searchArea with the area's
\* radius and the default depth
NextArea ==
    /\ areaIndex < Len(cells)
    /\ SearchAreaCall(cells[areaIndex + 1].radius * RadiusUnit, 0)

\* lines 415, 424-426: all areas searched
\* Mutant: main leaves the area loop while areas are still to be searched.
AreasDoneEarly ==
    /\ pc = "areaLoop"
    /\ areaIndex <= searchStrategy
    /\ pc' = "stage2"
    /\ UNCHANGED <<configVars, discoveryVars, discoveredListingIds,
                   discoveredHostIds, hostVars>>

AreasDone ==
    /\ pc = "areaLoop"
    /\ areaIndex = searchStrategy
    /\ pc' = "stage2"
    /\ UNCHANGED <<configVars, discoveryVars, discoveredListingIds,
                   discoveredHostIds, hostVars>>

\* lines 297-309: the query parameters of a task's first request
SearchParams(range) ==
    [price_min |-> Whole(range.min),
     price_max |-> IF NumLt(range.max, Num(PRICE_MAX_PARAM_LIMIT))
                     THEN Whole(range.max) ELSE NoParam,
     items_offset |-> 0,
     key |-> apiKey]

\* Mutant: the price ranges of an area are taken from the last to the first.
StartTaskDescending ==
    /\ pc = "rangeLoop"
    /\ rangeIndex < Len(priceRanges)
    /\ LET range == priceRanges[Len(priceRanges) - rangeIndex]
       IN /\ searchUrl' = SearchParams(range)
          /\ started' = Append(started, [area |-> areaIndex, range |-> range,
                                         radius |-> radius, depth |-> depth])
    /\ rangeIndex' = rangeIndex + 1
    /\ searchIndex' = searchIndex + 1
    /\ offset' = 0
    /\ allListings' = <<>>
    /\ foundCount' = 0
    /\ subAreas' = <<>>
    /\ lastResponse' = NoResponse
    /\ pc' = "page"
    /\ UNCHANGED <<configVars, searchStrategy, radius, depth, areaIndex,
                   discoveredListingIds, discoveredHostIds, hostVars>>

\* lines 282-325: start the task of the next price range and request its
\* first page
StartTask ==
    /\ pc = "rangeLoop"
    /\ rangeIndex < Len(priceRanges)
    /\ LET range == priceRanges[rangeIndex + 1]
       IN /\ searchUrl' = SearchParams(range)
          /\ started' = Append(started, [area |-> areaIndex, range |-> range,
                                         radius |-> radius, depth |-> depth])
    /\ rangeIndex' = rangeIndex + 1
    /\ searchIndex' = searchIndex + 1
    /\ offset' = 0
    /\ allListings' = <<>>
    /\ foundCount' = 0
    /\ subAreas' = <<>>
    /\ lastResponse' = NoResponse
    /\ pc' = "page"
    /\ UNCHANGED <<configVars, searchStrategy, radius, depth, areaIndex,
                   discoveredListingIds, discoveredHostIds, hostVars>>

\* lines 282, 412, 418-421: searchArea returns after its last range; main
\* leaves the area loop when the debug cap is reached
SearchAreaDone ==
    /\ pc = "rangeLoop"
    /\ rangeIndex = Len(priceRanges)
    /\ pc' = IF DebugCapReached(discoveredListingIds) THEN "stage2" ELSE "areaLoop"
    /\ UNCHANGED <<configVars, discoveryVars, discoveredListingIds,
                   discoveredHostIds, hostVars>>

\* lines 372-382: the subAreas array of a dense task, one entry per corner
\* (++, +-, -+, --) with half the radius; nothing is built otherwise
Subdivide(count) ==
    IF count > DENSITY_THRESHOLD /\ depth < MAX_DEPTH
                                 /\ radius > MIN_RADIUS * RadiusUnit
      THEN [i \in 1..4 |-> [corner |-> i, radius |-> radius \div 2]]
      ELSE <<>>

\* lines 325-406: a page arrived; kept is what allListings holds after the
\* push and next the offset after `offset += limit`.  With more pages
\* announced and a non-empty page the next offset is set and the loop
\* sleeps; otherwise the items of all pages are processed, the subAreas of
\* a dense task are built (and only logged, as is a reached listing limit),
\* and in debug mode a reached cap returns from searchArea and breaks
\* main's area loop
PageArrived(listings, has_next_page, kept, next) ==
    /\ pc = "page"
    /\ allListings' = kept
    /\ lastResponse' = [failed |-> FALSE, more |-> has_next_page,
                        count |-> Len(listings)]
    /\ IF has_next_page /\ Len(listings) > 0
         THEN /\ offset' = next
              /\ pc' = "pageSleep"
              /\ UNCHANGED <<foundCount, subAreas, discoveredListingIds,
                             discoveredHostIds>>
         ELSE LET r == ProcessItems(allListings', discoveredListingIds,
                                    discoveredHostIds, 0)
              IN /\ discoveredListingIds' = r.listings
                 /\ discoveredHostIds' = r.hosts
                 /\ foundCount' = r.found
                 /\ subAreas' = Subdivide(r.found)
                 /\ offset' = offset
                 /\ pc' = IF DebugCapReached(r.listings)
                            THEN "stage2" ELSE "taskSleep"
    /\ UNCHANGED <<configVars, searchStrategy, radius, depth, started,
                   areaIndex, rangeIndex, searchIndex, searchUrl, hostVars>>

\* lines 339-347: allListings.push(...listings) and offset += limit
PageOk(listings, has_next_page) ==
    PageArrived(listings, has_next_page, allListings \o listings,
                offset + PAGE_LIMIT)

\* Mutant: a failed request ends the discovery stage.
PageFailAborts ==
    /\ pc = "page"
    /\ allListings' = <<>>
    /\ lastResponse' = [failed |-> TRUE, more |-> FALSE, count |-> 0]
    /\ pc' = "stage2"
    /\ UNCHANGED <<configVars, searchStrategy, radius, depth, subAreas,
                   started, areaIndex, rangeIndex, searchIndex, searchUrl,
                   offset, foundCount, discoveredListingIds,
                   discoveredHostIds, hostVars>>

\* Mutant: a failed page request processes the pages fetched before it.
PageFailKeepsPages ==
    /\ pc = "page"
    /\ LET r == ProcessItems(allListings, discoveredListingIds,
                             discoveredHostIds, 0)
       IN /\ discoveredListingIds' = r.listings
          /\ discoveredHostIds' = r.hosts
    /\ allListings' = <<>>
    /\ lastResponse' = [failed |-> TRUE, more |-> FALSE, count |-> 0]
    /\ pc' = "taskSleep"
    /\ UNCHANGED <<configVars, searchStrategy, radius, depth, subAreas,
                   started, areaIndex, rangeIndex, searchIndex, searchUrl,
                   offset, foundCount, hostVars>>

\* Mutant: a failed search task fetches a fresh key for the searches to come.
PageFailRefreshes ==
    /\ pc = "page"
    /\ allListings' = <<>>
    /\ lastResponse' = [failed |-> TRUE, more |-> FALSE, count |-> 0]
    /\ apiKey' = keysIssued + 1
    /\ keysIssued' = keysIssued + 1
    /\ pc' = "taskSleep"
    /\ UNCHANGED <<scraperVars, transportVars, DEBUG_MODE,
                   DEBUG_LISTINGS_ONLY, optThreshold, planVars,
                   searchStrategy, radius, depth, subAreas, started,
                   areaIndex, rangeIndex, searchIndex, searchUrl, offset,
                   foundCount, discoveredListingIds, discoveredHostIds,
                   hostIds, hostIndex, agenciesFound, consecutiveHostErrors,
                   currentHostApiKey, finalHosts, csvRows, requested, events>>

\* lines 407-409: makeRequest or JSON.parse threw; the task is skipped and
\* the pages fetched so far are dropped with the try block
PageFail ==
    /\ pc = "page"
    /\ allListings' = <<>>
    /\ lastResponse' = [failed |-> TRUE, more |-> FALSE, count |-> 0]
    /\ pc' = "taskSleep"
    /\ UNCHANGED <<configVars, searchStrategy, radius, depth, subAreas,
                   started, areaIndex, rangeIndex, searchIndex, searchUrl,
                   offset, foundCount, discoveredListingIds,
                   discoveredHostIds, hostVars>>

\* Mutant: the next page is requested at the offset of the last one.
PageSleepSameOffset ==
    /\ pc = "pageSleep"
    /\ searchUrl' = [searchUrl EXCEPT !.items_offset = offset - PAGE_LIMIT]
    /\ pc' = "page"
    /\ UNCHANGED <<configVars, searchStrategy, radius, depth, subAreas,
                   started, lastResponse, areaIndex, rangeIndex, searchIndex,
                   offset, allListings, foundCount, discoveredListingIds,
                   discoveredHostIds, hostVars>>

\* lines 348, 323-325: sleep(250), then request the page at the new offset
PageSleep ==
    /\ pc = "pageSleep"
    /\ searchUrl' = [searchUrl EXCEPT !.items_offset = offset]
    /\ pc' = "page"
    /\ UNCHANGED <<configVars, searchStrategy, radius, depth, subAreas,
                   started, lastResponse, areaIndex, rangeIndex, searchIndex,
                   offset, allListings, foundCount, discoveredListingIds,
                   discoveredHostIds, hostVars>>

\* lines 410-411: sleep(500) between tasks; the task's locals are gone when
\* the loop body ends
TaskSleep ==
    /\ pc = "taskSleep"
    /\ allListings' = <<>>
    /\ offset' = 0
    /\ lastResponse' = NoResponse
    /\ pc' = "rangeLoop"
    /\ UNCHANGED <<configVars, searchStrategy, radius, depth, subAreas,
                   started, areaIndex, rangeIndex, searchIndex, searchUrl,
                   foundCount, discoveredListingIds, discoveredHostIds,
                   hostVars>>

\* line 258 done: a polygon at hand and the plan made from it
Planned ==
    /\ \E k \in 0..NumCells :
          /\ results = geocoded(k)
          /\ geoPolygon = geocoded(k)[2].geojson
          /\ cells = Strategy(geocoded(k)[2].geojson)
    /\ planCeiling = PRICE_CEILING
    /\ planRounding = 0
    /\ priceRanges = initialPriceRanges

\* lines 260-276: nothing searched yet
NothingSearched ==
    /\ radius = 0
    /\ depth = 0
    /\ subAreas = <<>>
    /\ started = <<>>
    /\ lastResponse = NoResponse
    /\ areaIndex = 0
    /\ rangeIndex = 0
    /\ searchIndex = 0
    /\ searchUrl = NoSearchUrl
    /\ offset = 0
    /\ allListings = <<>>
    /\ foundCount = 0
    /\ discoveredListingIds = <<>>
    /\ discoveredHostIds = <<>>

NoBody == 0            \* no body has been returned

\* no makeRequest call is looked at attempt by attempt: the programs see
\* makeRequest as one call that returns or throws
NoTransport ==
    /\ transport = "none"
    /\ attempt = 0
    /\ attempts = <<>>
    /\ delays = <<>>
    /\ responseText = NoBody

\* no review scraper is running
NoScraper ==
    /\ scraper = "none"
    /\ inputDir = <<>>
    /\ outputDir = <<>>
    /\ run = 0
    /\ fileIndex = 0
    /\ properties = <<>>
    /\ itemIndex = 0
    /\ allReviews = <<>>
    /\ fetchedReviews = <<>>
    /\ pageOffset = 0
    /\ maxOffset = 0
    /\ lastPage = "none"
    /\ fetchLog = {}
    /\ processedLog = {}

\* lines 262, 436-440 not reached: no host looked at yet
NothingResolved ==
    /\ hostIds = <<>>
    /\ hostIndex = 0
    /\ agenciesFound = 0
    /\ consecutiveHostErrors = 0
    /\ finalHosts = <<>>
    /\ csvRows = <<>>
    /\ requested = <<>>
    /\ events = <<>>

\* main() at line 272: credential acquired, area planned, nothing discovered.
\* Stage 1 reads DEBUG_MODE only; the other two options keep their defaults.
Init ==
    /\ NoTransport
    /\ NoScraper
    /\ pc = "areaLoop"
    /\ DEBUG_MODE \in BOOLEAN
    /\ DEBUG_LISTINGS_ONLY = FALSE
    /\ optThreshold = AGENCY_THRESHOLD
    /\ apiKey = 1
    /\ keysIssued = 1
    /\ currentHostApiKey = 1
    /\ Planned
    /\ searchStrategy = Len(cells)
    /\ NothingSearched
    /\ NothingResolved

Next ==
    \/ NextArea
    \/ AreasDone
    \/ StartTask
    \/ SearchAreaDone
    \/ \E listings \in SeqsUpTo(Items, MaxTaskItems - Len(allListings)),
          has_next_page \in BOOLEAN :
             PageOk(listings, has_next_page)
    \/ PageFail
    \/ PageSleep
    \/ TaskSleep

Spec == Init /\ [][Next]_vars

-----------------------------------------------------------------------------
(* Stage 1 in a dense area: every task is answered with one page holding   *)
(* the first n listings of the area, each with its own host, for an n      *)
(* around the density threshold and the listing limit                      *)

DenseCounts == {0, DENSITY_THRESHOLD - 1, DENSITY_THRESHOLD,
                DENSITY_THRESHOLD + 1, LISTING_LIMIT}

Block(n) == [i \in 1..n |-> [lid |-> i, hid |-> i]]

NextDense ==
    \/ NextArea
    \/ AreasDone
    \/ StartTask
    \/ SearchAreaDone
    \/ \E n \in DenseCounts : PageOk(Block(n), FALSE)
    \/ PageFail
    \/ TaskSleep

DenseSpec == Init /\ [][NextDense]_vars

\* main() never stops between two steps of its own
FairDenseSpec == DenseSpec /\ WF_vars(NextDense)

-----------------------------------------------------------------------------
(* Stage 1 against a search endpoint that never runs out of pages: every   *)
(* page holds the same listing (or nothing) and may announce more pages.   *)
(* The loop of lines 323-350 has no bound of its own, so offset and        *)
(* allListings grow for as long as the endpoint goes on; they are tracked   *)
(* up to MaxTrackedPages pages and stay there.  Every item being the same   *)
(* listing, processing the tracked items gives what processing all of them *)
(* gives.                                                                  *)

TheItem == [lid |-> 1, hid |-> 1]

Tracked(s) == IF Len(s) > MaxTrackedPages THEN SubSeq(s, 1, MaxTrackedPages)
                                        ELSE s

TrackedOffset(o) == IF o > MaxTrackedPages * PAGE_LIMIT
                      THEN MaxTrackedPages * PAGE_LIMIT ELSE o

\* lines 339-347 with the tracked part of allListings and offset
PageOkTracked(listings, has_next_page) ==
    PageArrived(listings, has_next_page, Tracked(allListings \o listings),
                TrackedOffset(offset + PAGE_LIMIT))

NextLoop ==
    \/ NextArea
    \/ AreasDone
    \/ StartTask
    \/ SearchAreaDone
    \/ \E listings \in {<<>>, <<TheItem>>}, has_next_page \in BOOLEAN :
          PageOkTracked(listings, has_next_page)
    \/ PageFail
    \/ PageSleep
    \/ TaskSleep

LoopSpec == Init /\ [][NextLoop]_vars

\* main() never stops between two steps of its own, and the endpoint
\* answers every request
FairLoopSpec == LoopSpec /\ WF_vars(NextLoop)

-----------------------------------------------------------------------------
(* createPricePivotingRanges on its own: any small ceiling, and the one    *)
(* the planner passes                                                      *)

Ceilings == 0..MaxCeiling \cup {PRICE_CEILING}

InitBands ==
    /\ NoTransport
    /\ NoScraper
    /\ pc = "plan"
    /\ DEBUG_MODE = FALSE
    /\ DEBUG_LISTINGS_ONLY = FALSE
    /\ optThreshold = AGENCY_THRESHOLD
    /\ apiKey = 1
    /\ keysIssued = 1
    /\ currentHostApiKey = 1
    /\ results = geocoded(0)
    /\ geoPolygon = geocoded(0)[2].geojson
    /\ cells = <<>>
    /\ planCeiling \in Ceilings
    /\ planRounding = 0
    /\ priceRanges = <<>>
    /\ searchStrategy = 0
    /\ NothingSearched
    /\ NothingResolved

\* lines 191-210 applied to (0, planCeiling), as line 221 applies them
PlanBands ==
    /\ pc = "plan"
    /\ \E rounding \in Roundings(planCeiling) :
          /\ planRounding' = rounding
          /\ priceRanges' = createPricePivotingRanges(Num(0), Num(planCeiling),
                                                      rounding)
    /\ pc' = "planned"
    /\ UNCHANGED <<scraperVars, transportVars, DEBUG_MODE, DEBUG_LISTINGS_ONLY, optThreshold, apiKey,
                   results, geoPolygon, planCeiling, cells, discoveryVars,
                   discoveredListingIds, discoveredHostIds, hostVars>>

NextBands == PlanBands

BandSpec == InitBands /\ [][NextBands]_vars

-----------------------------------------------------------------------------
(* Environment of stage 3: what the users endpoint and the bootstrap page  *)
(* may answer                                                              *)

ProfileIds == 1..NumProfileIds

ListingCounts == (AGENCY_THRESHOLD - 1)..(AGENCY_THRESHOLD + 1)

Thresholds == {AGENCY_THRESHOLD - 1, AGENCY_THRESHOLD}

FetchEvents == {"ok", "nouser", "fail"}

RefreshEvents == {"refreshOk", "refreshFail"}

-----------------------------------------------------------------------------
(* Stage 3: host profiles (lines 428-510) *)

\* line 473: user.listings_count >= AGENCY_THRESHOLD
IsAgency(listings_count) == listings_count >= AGENCY_THRESHOLD

\* lines 469-477: the Host record built from data.user
HostRecord(user) ==
    [id |-> user.id,
     listingCount |-> user.listings_count,
     isAgency |-> IsAgency(user.listings_count)]

\* lines 424-440: searchArea has returned for the last time and what was
\* local to it is gone; skip stage 3 in listings-only mode, else set up the
\* loop
EnterStage3 ==
    /\ pc = "stage2"
    /\ IF DEBUG_LISTINGS_ONLY
         THEN /\ pc' = "done"
              /\ UNCHANGED <<hostIds, hostIndex, agenciesFound,
                             consecutiveHostErrors, currentHostApiKey>>
         ELSE /\ pc' = "hostLoop"
              /\ hostIds' = discoveredHostIds
              /\ hostIndex' = 0
              /\ agenciesFound' = 0
              /\ consecutiveHostErrors' = 0
              /\ currentHostApiKey' = apiKey
    /\ radius' = 0
    /\ depth' = 0
    /\ subAreas' = <<>>
    /\ lastResponse' = NoResponse
    /\ rangeIndex' = 0
    /\ searchUrl' = NoSearchUrl
    /\ offset' = 0
    /\ allListings' = <<>>
    /\ foundCount' = 0
    /\ UNCHANGED <<configVars, searchStrategy, started, areaIndex,
                   searchIndex, discoveredListingIds, discoveredHostIds,
                   finalHosts, csvRows, keysIssued, requested, events>>

\* lines 442-448: take the next host id and send the profile request
HostRequest ==
    /\ pc = "hostLoop"
    /\ hostIndex < Len(hostIds)
    /\ hostIndex' = hostIndex + 1
    /\ requested' = Append(requested, hostIds[hostIndex + 1])
    /\ pc' = "hostFetch"
    /\ UNCHANGED <<configVars, discoveryVars, discoveredListingIds,
                   discoveredHostIds, hostIds, agenciesFound,
                   consecutiveHostErrors, currentHostApiKey, finalHosts,
                   csvRows, keysIssued, events>>

\* Mutant: the third agency does not end the loop.
HostResponseUserNoBreak(user) ==
    /\ pc = "hostFetch"
    /\ LET host == HostRecord(user)
           found == IF host.isAgency THEN agenciesFound + 1 ELSE agenciesFound
       IN /\ finalHosts' = Append(finalHosts, host)
          /\ agenciesFound' = found
          /\ consecutiveHostErrors' = 0
          /\ pc' = "hostSleep"
    /\ events' = Append(events, "ok")
    /\ UNCHANGED <<configVars, discoveryVars, discoveredListingIds,
                   discoveredHostIds, hostIds, hostIndex, currentHostApiKey,
                   csvRows, keysIssued, requested>>

\* lines 449-491, data.user present: append the record; in debug mode the
\* third agency breaks out of the loop before the counter reset and the sleep
HostResponseUser(user) ==
    /\ pc = "hostFetch"
    /\ LET host == HostRecord(user)
           found == IF host.isAgency THEN agenciesFound + 1 ELSE agenciesFound
           stop == host.isAgency /\ DEBUG_MODE /\ found >= DEBUG_MAX_AGENCIES
       IN /\ finalHosts' = Append(finalHosts, host)
          /\ agenciesFound' = found
          /\ consecutiveHostErrors' = IF stop THEN consecutiveHostErrors ELSE 0
          /\ pc' = IF stop THEN "save" ELSE "hostSleep"
    /\ events' = Append(events, "ok")
    /\ UNCHANGED <<configVars, discoveryVars, discoveredListingIds,
                   discoveredHostIds, hostIds, hostIndex, currentHostApiKey,
                   csvRows, keysIssued, requested>>

\* Mutant: a body without data.user is handled like a failed fetch.
HostResponseNoUserCounts ==
    /\ pc = "hostFetch"
    /\ consecutiveHostErrors' = consecutiveHostErrors + 1
    /\ pc' = IF consecutiveHostErrors' >= REFRESH_THRESHOLD
               THEN "refresh" ELSE "hostSleep"
    /\ events' = Append(events, "nouser")
    /\ UNCHANGED <<configVars, discoveryVars, discoveredListingIds,
                   discoveredHostIds, hostIds, hostIndex, agenciesFound,
                   currentHostApiKey, finalHosts, csvRows, keysIssued,
                   requested>>

\* lines 467-468, 491: a parsed body without data.user is a success
HostResponseNoUser ==
    /\ pc = "hostFetch"
    /\ consecutiveHostErrors' = 0
    /\ pc' = "hostSleep"
    /\ events' = Append(events, "nouser")
    /\ UNCHANGED <<configVars, discoveryVars, discoveredListingIds,
                   discoveredHostIds, hostIds, hostIndex, agenciesFound,
                   currentHostApiKey, finalHosts, csvRows, keysIssued,
                   requested>>

\* Mutant: the failed host id is put back and fetched again.
HostResponseFailRetry ==
    /\ pc = "hostFetch"
    /\ consecutiveHostErrors' = consecutiveHostErrors + 1
    /\ hostIndex' = hostIndex - 1
    /\ pc' = IF consecutiveHostErrors' >= REFRESH_THRESHOLD
               THEN "refresh" ELSE "hostSleep"
    /\ events' = Append(events, "fail")
    /\ UNCHANGED <<configVars, discoveryVars, discoveredListingIds,
                   discoveredHostIds, hostIds, agenciesFound,
                   currentHostApiKey, finalHosts, csvRows, keysIssued,
                   requested>>

\* Mutant: a failed fetch still appends an (empty) record.
HostResponseFailAppends ==
    /\ pc = "hostFetch"
    /\ consecutiveHostErrors' = consecutiveHostErrors + 1
    /\ finalHosts' = Append(finalHosts, HostRecord([id |-> requested[Len(requested)],
                                                    listings_count |-> 0]))
    /\ pc' = IF consecutiveHostErrors' >= REFRESH_THRESHOLD
               THEN "refresh" ELSE "hostSleep"
    /\ events' = Append(events, "fail")
    /\ UNCHANGED <<configVars, discoveryVars, discoveredListingIds,
                   discoveredHostIds, hostIds, hostIndex, agenciesFound,
                   currentHostApiKey, csvRows, keysIssued, requested>>

\* Mutant: the refresh is requested one failure early.
HostResponseFailEarly ==
    /\ pc = "hostFetch"
    /\ consecutiveHostErrors' = consecutiveHostErrors + 1
    /\ pc' = IF consecutiveHostErrors' >= REFRESH_THRESHOLD - 1
               THEN "refresh" ELSE "hostSleep"
    /\ events' = Append(events, "fail")
    /\ UNCHANGED <<configVars, discoveryVars, discoveredListingIds,
                   discoveredHostIds, hostIds, hostIndex, agenciesFound,
                   currentHostApiKey, finalHosts, csvRows, keysIssued,
                   requested>>

\* lines 492-498: makeRequest or JSON.parse threw; count the failure and, at
\* three or more in a row, call getApiKey
HostResponseFail ==
    /\ pc = "hostFetch"
    /\ consecutiveHostErrors' = consecutiveHostErrors + 1
    /\ pc' = IF consecutiveHostErrors' >= REFRESH_THRESHOLD
               THEN "refresh" ELSE "hostSleep"
    /\ events' = Append(events, "fail")
    /\ UNCHANGED <<configVars, discoveryVars, discoveredListingIds,
                   discoveredHostIds, hostIds, hostIndex, agenciesFound,
                   currentHostApiKey, finalHosts, csvRows, keysIssued,
                   requested>>

\* Mutant: the refresh starts the stage's result over.
RefreshOkDropsHosts ==
    /\ pc = "refresh"
    /\ currentHostApiKey' = keysIssued + 1
    /\ keysIssued' = keysIssued + 1
    /\ consecutiveHostErrors' = 0
    /\ finalHosts' = <<>>
    /\ pc' = "hostSleep"
    /\ events' = Append(events, "refreshOk")
    /\ UNCHANGED <<configVars, discoveryVars, discoveredListingIds,
                   discoveredHostIds, hostIds, hostIndex, agenciesFound,
                   csvRows, requested>>

\* Mutant: the fresh key is stored but the counter is left as it was.
RefreshOkKeepsCount ==
    /\ pc = "refresh"
    /\ currentHostApiKey' = keysIssued + 1
    /\ keysIssued' = keysIssued + 1
    /\ pc' = "hostSleep"
    /\ events' = Append(events, "refreshOk")
    /\ UNCHANGED <<configVars, discoveryVars, discoveredListingIds,
                   discoveredHostIds, hostIds, hostIndex, agenciesFound,
                   consecutiveHostErrors, finalHosts, csvRows, requested>>

\* lines 501-503: getApiKey returned a key; use it and reset the counter
RefreshOk ==
    /\ pc = "refresh"
    /\ currentHostApiKey' = keysIssued + 1
    /\ keysIssued' = keysIssued + 1
    /\ consecutiveHostErrors' = 0
    /\ pc' = "hostSleep"
    /\ events' = Append(events, "refreshOk")
    /\ UNCHANGED <<configVars, discoveryVars, discoveredListingIds,
                   discoveredHostIds, hostIds, hostIndex, agenciesFound,
                   finalHosts, csvRows, requested>>

\* Mutant: a failed refresh gives the stage up.
RefreshFailAborts ==
    /\ pc = "refresh"
    /\ pc' = "save"
    /\ events' = Append(events, "refreshFail")
    /\ UNCHANGED <<configVars, discoveryVars, discoveredListingIds,
                   discoveredHostIds, hostIds, hostIndex, agenciesFound,
                   consecutiveHostErrors, currentHostApiKey, finalHosts,
                   csvRows, keysIssued, requested>>

\* Mutant: a failed refresh resets the counter like a successful one.
RefreshFailResetsCount ==
    /\ pc = "refresh"
    /\ consecutiveHostErrors' = 0
    /\ pc' = "hostSleep"
    /\ events' = Append(events, "refreshFail")
    /\ UNCHANGED <<configVars, discoveryVars, discoveredListingIds,
                   discoveredHostIds, hostIds, hostIndex, agenciesFound,
                   currentHostApiKey, finalHosts, csvRows, keysIssued,
                   requested>>

\* lines 504-506: getApiKey threw; the error is logged, nothing is assigned
RefreshFail ==
    /\ pc = "refresh"
    /\ pc' = "hostSleep"
    /\ events' = Append(events, "refreshFail")
    /\ UNCHANGED <<configVars, discoveryVars, discoveredListingIds,
                   discoveredHostIds, hostIds, hostIndex, agenciesFound,
                   consecutiveHostErrors, currentHostApiKey, finalHosts,
                   csvRows, keysIssued, requested>>

\* Mutant: the next profile is requested before the sleep is over.
HostSleepPrefetch ==
    /\ pc = "hostSleep"
    /\ pc' = "hostLoop"
    /\ requested' = IF hostIndex < Len(hostIds)
                      THEN Append(requested, hostIds[hostIndex + 1])
                      ELSE requested
    /\ UNCHANGED <<configVars, discoveryVars, discoveredListingIds,
                   discoveredHostIds, hostIds, hostIndex, agenciesFound,
                   consecutiveHostErrors, currentHostApiKey, finalHosts,
                   csvRows, keysIssued, events>>

\* line 509: await sleep(250), then back to the loop head
HostSleep ==
    /\ pc = "hostSleep"
    /\ pc' = "hostLoop"
    /\ UNCHANGED <<configVars, discoveryVars, discoveredListingIds,
                   discoveredHostIds, hostIds, hostIndex, agenciesFound,
                   consecutiveHostErrors, currentHostApiKey, finalHosts,
                   csvRows, keysIssued, requested, events>>

\* line 442: the for-of loop ends when hostIds is exhausted
HostLoopExit ==
    /\ pc = "hostLoop"
    /\ hostIndex = Len(hostIds)
    /\ pc' = "save"
    /\ UNCHANGED <<configVars, discoveryVars, discoveredListingIds,
                   discoveredHostIds, hostIds, hostIndex, agenciesFound,
                   consecutiveHostErrors, currentHostApiKey, finalHosts,
                   csvRows, keysIssued, requested, events>>

-----------------------------------------------------------------------------
(* Stage 4: output (lines 512-548) *)

\* lines 522-530: one row per element of finalHosts
CsvRow(h) == [hostId |-> h.id, listingCount |-> h.listingCount,
              isAgency |-> h.isAgency]

\* Mutant: only the agencies are written.
SaveResultsAgenciesOnly ==
    /\ pc = "save"
    /\ csvRows' = LET agencies == SelectSeq(finalHosts, LAMBDA h : h.isAgency)
                  IN [i \in 1..Len(agencies) |-> CsvRow(agencies[i])]
    /\ pc' = "done"
    /\ UNCHANGED <<configVars, discoveryVars, discoveredListingIds,
                   discoveredHostIds, hostIds, hostIndex, agenciesFound,
                   consecutiveHostErrors, currentHostApiKey, finalHosts,
                   keysIssued, requested, events>>

\* lines 514-540: write the rows when there is at least one host
SaveResults ==
    /\ pc = "save"
    /\ csvRows' = IF Len(finalHosts) > 0
                    THEN [i \in 1..Len(finalHosts) |-> CsvRow(finalHosts[i])]
                    ELSE csvRows
    /\ pc' = "done"
    /\ UNCHANGED <<configVars, discoveryVars, discoveredListingIds,
                   discoveredHostIds, hostIds, hostIndex, agenciesFound,
                   consecutiveHostErrors, currentHostApiKey, finalHosts,
                   keysIssued, requested, events>>

-----------------------------------------------------------------------------
(* Host resolution on its own: main() at line 428, discovery finished.     *)
(* Discovery stores each host id once, together with a listing that        *)
(* carried it, so the sets hold k distinct host ids and k distinct         *)
(* listing ids.                                                            *)

InitHosts ==
    /\ NoTransport
    /\ NoScraper
    /\ pc = "stage2"
    /\ DEBUG_MODE \in BOOLEAN
    /\ DEBUG_LISTINGS_ONLY \in BOOLEAN
    /\ optThreshold \in Thresholds
    /\ apiKey = 1
    /\ keysIssued = 1
    /\ currentHostApiKey = 1
    /\ Planned
    /\ Len(cells) = NumCells
    /\ searchStrategy = NumCells
    /\ areaIndex = NumCells
    /\ radius = 0
    /\ depth = 0
    /\ subAreas = <<>>
    /\ started = <<>>
    /\ lastResponse = NoResponse
    /\ rangeIndex = 0
    /\ searchIndex = 0
    /\ searchUrl = NoSearchUrl
    /\ offset = 0
    /\ allListings = <<>>
    /\ foundCount = 0
    /\ \E k \in 0..MaxHosts :
          /\ discoveredListingIds = [i \in 1..k |-> i]
          /\ discoveredHostIds = [i \in 1..k |-> i]
    /\ NothingResolved

NextHosts ==
    \/ EnterStage3
    \/ HostRequest
    \/ \E id \in ProfileIds, n \in ListingCounts :
          HostResponseUser([id |-> id, listings_count |-> n])
    \/ HostResponseNoUser
    \/ HostResponseFail
    \/ RefreshOk
    \/ RefreshFail
    \/ HostSleep
    \/ HostLoopExit
    \/ SaveResults

HostSpec == InitHosts /\ [][NextHosts]_vars

\* main() is a single thread of control: whenever it can take a step it does
FairHostSpec == HostSpec /\ WF_vars(NextHosts)


-----------------------------------------------------------------------------
(* Stage 1 around the debug cap, up to the start of the host loop: every   *)
(* task is answered with one page of listings never seen before, all of    *)
(* one host, none, one, or one fewer than the cap                          *)

CapCounts == {0, 1, DEBUG_MAX_LISTINGS - 1}

FreshBlock(n) ==
    [i \in 1..n |-> [lid |-> Len(discoveredListingIds) + i, hid |-> 1]]

NextDebug ==
    \/ NextArea
    \/ AreasDone
    \/ StartTask
    \/ SearchAreaDone
    \/ \E n \in CapCounts : PageOk(FreshBlock(n), FALSE)
    \/ PageFail
    \/ TaskSleep
    \/ EnterStage3

DebugSpec == Init /\ [][NextDebug]_vars


-----------------------------------------------------------------------------
(* A run against mock collaborators: the plan has 2 areas; listings 1 and  *)
(* 2 belong to host 1 and listing 3 to host 2; in both areas the task of   *)
(* the first price range returns listing 2, listings 1 and 3 are each      *)
(* returned once, by any task of the first 2 price ranges of either area,  *)
(* and every other task returns nothing; the profile of host 1 counts 6    *)
(* listings and that of host 2 counts 2                                    *)

InitScenario ==
    /\ NoTransport
    /\ NoScraper
    /\ pc = "areaLoop"
    /\ DEBUG_MODE = FALSE
    /\ DEBUG_LISTINGS_ONLY = FALSE
    /\ optThreshold = AGENCY_THRESHOLD
    /\ apiKey = 1
    /\ keysIssued = 1
    /\ currentHostApiKey = 1
    /\ results = geocoded(2)
    /\ geoPolygon = geocoded(2)[2].geojson
    /\ cells = Strategy(geocoded(2)[2].geojson)
    /\ planCeiling = PRICE_CEILING
    /\ planRounding = 0
    /\ priceRanges = initialPriceRanges
    /\ searchStrategy = Len(cells)
    /\ NothingSearched
    /\ NothingResolved

MockListing(l) == [lid |-> l, hid |-> IF l = 3 THEN 2 ELSE 1]

\* What the mock may return to the running task
MockChoices ==
    {chosen \in SUBSET {1, 2, 3} :
        /\ rangeIndex > 2 => chosen = {}
        /\ 2 \in chosen <=> rangeIndex = 1
        /\ \A l \in {1, 3} :
              /\ l \in chosen => rangeIndex <= 2 /\ ~SetHas(discoveredListingIds, l)
              /\ (areaIndex = 2 /\ rangeIndex = 2
                     /\ ~SetHas(discoveredListingIds, l)) => l \in chosen}

MockPage(chosen) ==
    LET at == SelectSeq(<<1, 2, 3>>, LAMBDA l : l \in chosen)
    IN [i \in 1..Len(at) |-> MockListing(at[i])]

MockProfile(id) == [id |-> id, listings_count |-> IF id = 1 THEN 6 ELSE 2]

NextScenario ==
    \/ NextArea
    \/ AreasDone
    \/ StartTask
    \/ SearchAreaDone
    \/ \E chosen \in MockChoices : PageOk(MockPage(chosen), FALSE)
    \/ TaskSleep
    \/ EnterStage3
    \/ HostRequest
    \/ pc = "hostFetch" /\ HostResponseUser(MockProfile(requested[Len(requested)]))
    \/ HostSleep
    \/ HostLoopExit
    \/ SaveResults

ScenarioSpec == InitScenario /\ [][NextScenario]_vars


-----------------------------------------------------------------------------
(* main() from its first statement (lines 255-548), started with a         *)
(* location argument.  The search endpoint answers a page with nothing or  *)
(* with one listing never seen before, of a host never seen before, until  *)
(* MaxHosts listings are known.                                            *)

\* line 255: main() is about to call getApiKey; nothing else exists yet
InitMain ==
    /\ NoTransport
    /\ NoScraper
    /\ pc = "getApiKey"
    /\ DEBUG_MODE \in BOOLEAN
    /\ DEBUG_LISTINGS_ONLY \in BOOLEAN
    /\ optThreshold = AGENCY_THRESHOLD
    /\ apiKey = NoId
    /\ keysIssued = 0
    /\ currentHostApiKey = NoId
    /\ results = <<>>
    /\ geoPolygon = NoGeojson
    /\ cells = <<>>
    /\ planCeiling = PRICE_CEILING
    /\ planRounding = 0
    /\ priceRanges = <<>>
    /\ searchStrategy = 0
    /\ NothingSearched
    /\ NothingResolved

\* lines 139-155, 255: the bootstrap page holds a key
GetApiKeyOk ==
    /\ pc = "getApiKey"
    /\ apiKey' = keysIssued + 1
    /\ keysIssued' = keysIssued + 1
    /\ pc' = "getGeoPolygon"
    /\ UNCHANGED <<scraperVars, transportVars, DEBUG_MODE, DEBUG_LISTINGS_ONLY, optThreshold, planVars,
                   discoveryVars, discoveredListingIds, discoveredHostIds,
                   hostIds, hostIndex, agenciesFound, consecutiveHostErrors,
                   currentHostApiKey, finalHosts, csvRows, requested, events>>

\* lines 139-150, 255, 541-544: the request fails or the page holds no key;
\* the catch of main() ends the process
GetApiKeyFail ==
    /\ pc = "getApiKey"
    /\ pc' = "fatal"
    /\ UNCHANGED <<configVars, discoveryVars, discoveredListingIds,
                   discoveredHostIds, hostVars>>

RECURSIVE findAnyGeometry(_, _)
RECURSIVE find(_, _)

\* Mutant: the first result with any geometry is taken.
findAnyGeometry(res, i) ==
    IF i > Len(res) THEN 0
    ELSE IF res[i].geojson # NoGeojson THEN i
    ELSE findAnyGeometry(res, i + 1)

\* line 172: Array.prototype.find from index i on; 0 stands for undefined
find(res, i) ==
    IF i > Len(res) THEN 0
    ELSE IF IsValidPolygon(res[i]) THEN i
    ELSE find(res, i + 1)

\* lines 160-179, 256, 541-544: the geocoder answered with res; return the
\* geojson of the result found, or throw into the catch of main()
getGeoPolygon(res) ==
    /\ pc = "getGeoPolygon"
    /\ results' = res
    /\ LET validPolygon == find(res, 1)
       IN IF validPolygon = 0
            THEN /\ pc' = "fatal"
                 /\ UNCHANGED geoPolygon
            ELSE /\ geoPolygon' = res[validPolygon].geojson
                 /\ pc' = "createSmartSearchStrategy"
    /\ UNCHANGED <<scraperVars, transportVars, DEBUG_MODE, DEBUG_LISTINGS_ONLY, optThreshold, apiKey,
                   planCeiling, planRounding, priceRanges, cells,
                   discoveryVars, discoveredListingIds, discoveredHostIds,
                   hostVars>>

\* Mutant: a geocoding failure is swallowed and main() goes on to plan.
GetGeoPolygonFailContinues ==
    /\ pc = "getGeoPolygon"
    /\ pc' = "areaLoop"
    /\ UNCHANGED <<configVars, discoveryVars, discoveredListingIds,
                   discoveredHostIds, hostVars>>

\* lines 96-134, 167-169, 541-544: the request to the geocoder fails
GetGeoPolygonFail ==
    /\ pc = "getGeoPolygon"
    /\ pc' = "fatal"
    /\ UNCHANGED <<configVars, discoveryVars, discoveredListingIds,
                   discoveredHostIds, hostVars>>

\* lines 185-234, 257-262: plan the areas of the polygon, each with the
\* price ranges of the ceiling, and create the empty collections
createSmartSearchStrategy ==
    /\ pc = "createSmartSearchStrategy"
    /\ geoPolygon # NoGeojson
    /\ priceRanges' = createPricePivotingRanges(Num(0), Num(planCeiling),
                                                planRounding)
    /\ cells' = Strategy(geoPolygon)
    /\ searchStrategy' = Len(cells')
    /\ pc' = "areaLoop"
    /\ UNCHANGED <<scraperVars, transportVars, DEBUG_MODE, DEBUG_LISTINGS_ONLY, optThreshold, apiKey,
                   results, geoPolygon, planCeiling, planRounding, radius, depth,
                   subAreas, started, lastResponse, areaIndex, rangeIndex,
                   searchIndex, searchUrl, offset, allListings, foundCount,
                   discoveredListingIds, discoveredHostIds, hostVars>>

FreshItem == [lid |-> Len(discoveredListingIds) + 1,
              hid |-> Len(discoveredHostIds) + 1]

FreshPages ==
    IF Len(discoveredListingIds) < MaxHosts /\ Len(allListings) < MaxTaskItems
      THEN {<<>>, <<FreshItem>>}
      ELSE {<<>>}

NextMain ==
    \/ GetApiKeyOk
    \/ GetApiKeyFail
    \/ \E res \in {geocoded(k) : k \in 0..NumCells} \cup {<<geocoded(0)[1]>>} :
          getGeoPolygon(res)
    \/ GetGeoPolygonFail
    \/ createSmartSearchStrategy
    \/ NextArea
    \/ AreasDone
    \/ StartTask
    \/ SearchAreaDone
    \/ \E listings \in FreshPages, has_next_page \in BOOLEAN :
          PageOk(listings, has_next_page)
    \/ PageFail
    \/ PageSleep
    \/ TaskSleep
    \/ NextHosts

PipelineSpec == InitMain /\ [][NextMain]_vars


-----------------------------------------------------------------------------
(* getGeoPolygon on its own: main() at line 256 with its credential, the   *)
(* geocoder answering with any list of up to MaxResults results            *)

InitGeo ==
    /\ NoTransport
    /\ NoScraper
    /\ pc = "getGeoPolygon"
    /\ DEBUG_MODE = FALSE
    /\ DEBUG_LISTINGS_ONLY = FALSE
    /\ optThreshold = AGENCY_THRESHOLD
    /\ apiKey = 1
    /\ keysIssued = 1
    /\ currentHostApiKey = NoId
    /\ results = <<>>
    /\ geoPolygon = NoGeojson
    /\ cells = <<>>
    /\ planCeiling = PRICE_CEILING
    /\ planRounding = 0
    /\ priceRanges = <<>>
    /\ searchStrategy = 0
    /\ NothingSearched
    /\ NothingResolved

\* The results of an answer, the k-th with the coordinates of a row of k
Answers ==
    {[k \in 1..Len(types) |-> Result(types[k], Row(k))] :
        types \in SeqsUpTo(GeoTypes \cup {"undefined"}, MaxResults)}

NextGeo ==
    \/ \E res \in Answers : getGeoPolygon(res)
    \/ GetGeoPolygonFail

GeoSpec == InitGeo /\ [][NextGeo]_vars


-----------------------------------------------------------------------------
(* createSmartSearchStrategy on its own, and main() entering its area      *)
(* loop with the result: any polygon or multi-polygon on a lattice of side *)
(* MaxGrid                                                                 *)

\* The polygons of the lattice: a bounding box, any of its points within,
\* none of them when the polygon is flat
Polygons ==
    {[box |-> Box(x1, x2, y1, y2), inside |-> within, flat |-> FALSE] :
        <<x1, x2, y1, y2, within>> \in
            {t \in (1..MaxGrid) \X (1..MaxGrid) \X (1..MaxGrid) \X (1..MaxGrid)
                     \X SUBSET Box(1, MaxGrid, 1, MaxGrid) :
                /\ t[1] <= t[2]
                /\ t[3] <= t[4]
                /\ t[5] \subseteq Box(t[1], t[2], t[3], t[4])}}
    \cup
    {[box |-> Box(x1, x2, y1, y2), inside |-> {}, flat |-> TRUE] :
        <<x1, x2, y1, y2>> \in
            (1..MaxGrid) \X (0..MaxGrid) \X (1..MaxGrid) \X (0..MaxGrid)}

\* What may follow the first polygon of a multi-polygon
OtherPolygons == {Row(0), [Row(1) EXCEPT !.flat = TRUE, !.inside = {}],
                  [box |-> Box(MaxGrid, MaxGrid, MaxGrid, MaxGrid),
                   inside |-> Box(MaxGrid, MaxGrid, MaxGrid, MaxGrid),
                   flat |-> FALSE]}

GeoPolygons ==
    {[type |-> "Polygon", coordinates |-> c] : c \in Polygons}
    \cup {[type |-> "MultiPolygon", coordinates |-> <<c>>] : c \in Polygons}
    \cup {[type |-> "MultiPolygon", coordinates |-> <<c, d>>] :
             c \in Polygons, d \in OtherPolygons}

InitGrid ==
    /\ NoTransport
    /\ NoScraper
    /\ pc = "createSmartSearchStrategy"
    /\ DEBUG_MODE = FALSE
    /\ DEBUG_LISTINGS_ONLY = FALSE
    /\ optThreshold = AGENCY_THRESHOLD
    /\ apiKey = 1
    /\ keysIssued = 1
    /\ currentHostApiKey = NoId
    /\ geoPolygon \in GeoPolygons
    /\ results = <<[geojson |-> geoPolygon]>>
    /\ cells = <<>>
    /\ planCeiling = PRICE_CEILING
    /\ planRounding = 0
    /\ priceRanges = <<>>
    /\ searchStrategy = 0
    /\ NothingSearched
    /\ NothingResolved

NextGrid ==
    \/ createSmartSearchStrategy
    \/ NextArea
    \/ AreasDone

GridSpec == InitGrid /\ [][NextGrid]_vars


-----------------------------------------------------------------------------
(* Reading the history *)

Last(s) == s[Len(s)]

FetchOutcomes == SelectSeq(events, LAMBDA e : e \in FetchEvents)

OkCount == Len(SelectSeq(events, LAMBDA e : e = "ok"))

\* credential refreshes requested so far in stage 3
RefreshRequests ==
    Len(SelectSeq(events, LAMBDA e : e \in RefreshEvents))
      + (IF pc = "refresh" THEN 1 ELSE 0)

\* position of the last event that sets the counter to 0 (0 when there is none)
LastReset ==
    LET R == {i \in 1..Len(events) : events[i] \in {"ok", "nouser", "refreshOk"}}
    IN IF R = {} THEN 0 ELSE CHOOSE i \in R : \A j \in R : j <= i

\* failed refreshes since the counter was last set to 0
FailedRefreshesSinceReset ==
    Cardinality({i \in (LastReset + 1)..Len(events) : events[i] = "refreshFail"})

\* the last n profile fetches all failed
LastFetchesFailed(n) ==
    LET f == FetchOutcomes
    IN Len(f) >= n /\ \A i \in (Len(f) - n + 1)..Len(f) : f[i] = "fail"

InHostStage == pc \in {"hostLoop", "hostFetch", "refresh", "hostSleep"}

HostStageOver == pc \in {"save", "done"} /\ ~DEBUG_LISTINGS_ONLY

FailStep == pc = "hostFetch" /\ events' = Append(events, "fail")

RefreshRequested == pc # "refresh" /\ pc' = "refresh"

RefreshOkStep == pc = "refresh" /\ events' = Append(events, "refreshOk")

RefreshFailStep == pc = "refresh" /\ events' = Append(events, "refreshFail")

\* the profile collaborator fails three times in a row and then succeeds
ThreeFailuresThenSuccess ==
    LET f == FetchOutcomes
    IN /\ Len(f) >= REFRESH_THRESHOLD + 1
       /\ \A i \in 1..Len(f) : f[i] = (IF i <= REFRESH_THRESHOLD THEN "fail" ELSE "ok")

-----------------------------------------------------------------------------
C3_Original ==
    (pc = "done" /\ ThreeFailuresThenSuccess) =>
        /\ RefreshRequests = 1
        /\ \E i \in 1..REFRESH_THRESHOLD :
             \E j \in (REFRESH_THRESHOLD + 1)..Len(requested) :
                requested[j] = requested[i]

(* C3 (amended): when the profile collaborator fails 3 times in a row and  *)
(* then succeeds, exactly one refresh is issued, the three failed host ids *)
(* are never requested again and the result holds one record per later     *)
(* fetch, none for the three failed ids.                                   *)
C3_Recovery ==
    ThreeFailuresThenSuccess =>
        /\ RefreshRequests = 1
        /\ NoDup(requested)
        /\ \A i \in 1..REFRESH_THRESHOLD :
              \A j \in (REFRESH_THRESHOLD + 1)..Len(requested) :
                 requested[j] # requested[i]
        /\ Len(finalHosts) = Len(FetchOutcomes) - REFRESH_THRESHOLD

C3_Witness ==
    /\ pc = "done"
    /\ ThreeFailuresThenSuccess
    /\ Len(finalHosts) = 1
    /\ Len(csvRows) = 1

(* C4: host resolution always finishes, and outside the debug modes it     *)
(* finishes with exactly one profile request per discovered host id, in    *)
(* order, whatever the fetches and the refreshes did.                      *)
C4_Exhausts ==
    /\ <>(pc = "done")
    /\ [](pc \in {"save", "done"} /\ ~DEBUG_MODE /\ ~DEBUG_LISTINGS_ONLY =>
             /\ requested = discoveredHostIds
             /\ Len(FetchOutcomes) = Len(discoveredHostIds))

C4_Witness ==
    /\ pc = "done"
    /\ ~DEBUG_MODE
    /\ Len(requested) = MaxHosts
    /\ \E i \in 1..Len(events) : events[i] = "refreshFail"
    /\ Last(events) = "refreshFail"

(* C5: a credential refresh, successful or failed, leaves the listing-id   *)
(* set, the host-id set, the host ids being iterated and the records       *)
(* already appended unchanged.                                             *)
C5_RefreshFrame ==
    [][pc = "refresh" =>
          UNCHANGED <<discoveredListingIds, discoveredHostIds, hostIds,
                      hostIndex, finalHosts, csvRows, apiKey>>]_vars

C5_Witness ==
    /\ events # <<>>
    /\ Last(events) = "refreshOk"
    /\ Len(finalHosts) = 1
    /\ Len(discoveredHostIds) = MaxHosts

(* C6: a failed profile fetch appends no record, adds one to the counter   *)
(* and goes on with the loop; the result holds one record per successful   *)
(* fetch, and outside the debug modes every host id is still requested.    *)
C6_FailedFetch ==
    /\ [][FailStep => /\ finalHosts' = finalHosts
                      /\ consecutiveHostErrors' = consecutiveHostErrors + 1
                      /\ pc' \in {"hostSleep", "refresh"}]_vars
    /\ [](Len(finalHosts) = OkCount)
    /\ [](HostStageOver /\ ~DEBUG_MODE => Len(requested) = Len(discoveredHostIds))

C6_Witness ==
    /\ pc = "done"
    /\ ~DEBUG_MODE
    /\ Len(events) = 3
    /\ events[1] = "ok" /\ events[2] = "fail" /\ events[3] = "ok"
    /\ Len(csvRows) = 2

(* C7: each listing id and each host id is stored once, and processing a   *)
(* response a second time adds no listing and no host: from every state at *)
(* a task boundary and for every response, processing it twice gives what  *)
(* processing it once gives, and the second pass counts 0 new listings.    *)
C7_Idempotent ==
    /\ NoDup(discoveredListingIds)
    /\ NoDup(discoveredHostIds)
    /\ pc = "taskSleep" =>
          LET again == ProcessItems(allListings, discoveredListingIds,
                                    discoveredHostIds, 0)
          IN /\ again.listings = discoveredListingIds
             /\ again.hosts = discoveredHostIds
             /\ again.found = 0
    /\ pc = "rangeLoop" =>
          \A response \in SeqsUpTo(Items, MaxTaskItems) :
             LET once == ProcessItems(response, discoveredListingIds,
                                      discoveredHostIds, 0)
                 twice == ProcessItems(response, once.listings, once.hosts, 0)
             IN /\ twice.listings = once.listings
                /\ twice.hosts = once.hosts
                /\ twice.found = 0

C7_Witness ==
    /\ pc = "taskSleep"
    /\ searchIndex >= 2
    /\ allListings # <<>>
    /\ allListings[1].lid # NoId
    /\ foundCount = 0
    /\ Len(discoveredListingIds) = 1

(* C8 (as stated): after a task that completed without error, every item   *)
(* of its response that carries a listing id and a host id has the listing *)
(* id in the listing set and the host id in the host set.                  *)
C8_Original ==
    pc = "taskSleep" =>
        \A i \in 1..Len(allListings) :
            (allListings[i].lid # NoId /\ allListings[i].hid # NoId) =>
                /\ SetHas(discoveredListingIds, allListings[i].lid)
                /\ SetHas(discoveredHostIds, allListings[i].hid)

(* C9 (as stated): the output has one row per host record and no two rows  *)
(* carry the same host id.                                                 *)
C9_Original ==
    pc = "done" =>
        /\ Len(csvRows) = Len(finalHosts)
        /\ \A i, j \in 1..Len(csvRows) :
              csvRows[i].hostId = csvRows[j].hostId => i = j

(* C10 (as stated): every host record has isAgency true exactly when its   *)
(* listing count is at least the configured threshold.                     *)
C10_Original ==
    \A i \in 1..Len(finalHosts) :
        finalHosts[i].isAgency <=> (finalHosts[i].listingCount >= optThreshold)

-----------------------------------------------------------------------------
(* Price bands *)

\* the bands tile [0, ceiling]: first starts at 0, last ends at the ceiling,
\* each band ends where the next starts, none is reversed or ends above
Tiles(ranges, ceiling) ==
    /\ Len(ranges) = HISTOGRAM_ITEMS_COUNT
    /\ ranges[1].min = Num(0)
    /\ ranges[Len(ranges)].max = Num(ceiling)
    /\ \A i \in 1..(Len(ranges) - 1) : ranges[i].max = ranges[i + 1].min
    /\ \A i \in 1..Len(ranges) :
          /\ ~NumGt(ranges[i].min, ranges[i].max)
          /\ ~NumGt(ranges[i].max, Num(ceiling))

-----------------------------------------------------------------------------
(* Search requests *)

\* a search request of the running task is out or about to be re-sent
InTask == pc \in {"page", "pageSleep"}

\* the price range of the running task
CurrentRange == priceRanges[rangeIndex]

\* C12 as stated: every search request of a task carries the band's min as
\* the lower price bound and the band's max as the upper price bound.
C12_Original ==
    InTask => /\ searchUrl.price_min = Whole(CurrentRange.min)
              /\ searchUrl.price_max = Whole(CurrentRange.max)

\* one step of main() seen as a step of a task's paging
PagingStep ==
    /\ pc' = "page" /\ pc # "page" => pc \in {"rangeLoop", "pageSleep"}
    /\ pc = "rangeLoop" /\ pc' = "page" => searchUrl'.items_offset = 0
    /\ pc = "pageSleep" /\ pc' = "page" =>
          searchUrl'.items_offset = searchUrl.items_offset + PAGE_LIMIT
    /\ pc = "page" /\ pc' # "page" /\ ~lastResponse'.failed =>
          (pc' = "pageSleep" <=> lastResponse'.more /\ lastResponse'.count > 0)
    /\ pc = "page" /\ pc' # "page" /\ lastResponse'.failed => pc' = "taskSleep"
    /\ pc = "pageSleep" => pc' = "page"

\* C13: within a task the first request asks for offset 0 and each further
\* request for the previous offset plus 50; a further page is requested
\* exactly when the response just received announced more pages and was not
\* empty, and the paging of the task ends with the first response that does
\* not (or with a failed request).
C13_Paging == [][PagingStep]_vars

\* a second page was requested at offset 50, announced more pages but was
\* empty, and the paging stopped there
C13_Witness ==
    /\ pc = "taskSleep"
    /\ searchUrl.items_offset = PAGE_LIMIT
    /\ lastResponse = [failed |-> FALSE, more |-> TRUE, count |-> 0]

-----------------------------------------------------------------------------
(* Densification *)

\* the step in which searchArea processes the items of a task that did not
\* fail
ProcessedStep ==
    /\ pc = "page"
    /\ pc' \in {"taskSleep", "stage2"}
    /\ ~lastResponse'.failed

\* the property of an object, NoParam when the object does not have it
Prop(obj, name) == IF name \in DOMAIN obj THEN obj[name] ELSE NoParam

\* C14 as stated: a task at depth 0 that finds at least 20 new listings adds
\* exactly 4 child areas (half the radius, depth 1) to the areas still to be
\* searched; a task that finds fewer than 20 adds none.
C14_Original ==
    [][ProcessedStep /\ depth = 0 =>
          IF foundCount' >= DENSITY_THRESHOLD
            THEN /\ searchStrategy' = searchStrategy + 4
                 /\ Len(subAreas') = 4
                 /\ \A i \in 1..4 : 2 * subAreas'[i].radius = radius
            ELSE searchStrategy' = searchStrategy]_vars

\* C15 as stated: a cell at depth 2 is never selected for subdivision, every
\* child derived from a cell has half the cell's radius and the cell's depth
\* plus one, and every cell searched has depth at most 2.
C15_Original ==
    /\ depth = MAX_DEPTH => subAreas = <<>>
    /\ \A i \in 1..Len(subAreas) :
          /\ 2 * subAreas[i].radius = radius
          /\ Prop(subAreas[i], "depth") = depth + 1
    /\ \A i \in 1..Len(started) : started[i].depth <= MAX_DEPTH

\* C16 as stated: when a task finds as many new listings as the result cap,
\* its price band is split and the narrower bands are put up for search for
\* that cell.
C16_Original ==
    [][ProcessedStep /\ foundCount' >= LISTING_LIMIT =>
          \/ priceRanges' # priceRanges
          \/ searchStrategy' # searchStrategy
          \/ Len(started') > Len(started)]_vars

-----------------------------------------------------------------------------
(* Order of the tasks *)

\* the k-th task of the plan: areas in the order of searchStrategy, within an
\* area the price ranges in the order of priceRanges, each area with the
\* initial radius at depth 0
PlannedTask(k) ==
    [area |-> ((k - 1) \div Len(priceRanges)) + 1,
     range |-> priceRanges[((k - 1) % Len(priceRanges)) + 1],
     radius |-> initialRadius * RadiusUnit,
     depth |-> 0]

PlanSize == searchStrategy * Len(priceRanges)

-----------------------------------------------------------------------------
(* Failed search requests *)

\* the step in which a search request of the running task throws
SearchFailedStep == pc = "page" /\ lastResponse'.failed

-----------------------------------------------------------------------------
(* Termination of discovery *)

\* C19 as stated: whatever the search endpoint answers (page contents,
\* more-pages flags, failures), listing discovery eventually finishes all
\* its tasks.
C19_Original == <>(pc = "stage2")

\* The stage main() is in: 1 credential acquisition, 2 geocoding, 3 grid
\* planning, 4 listing discovery, 5 host resolution, 6 output, 7 ended
StageOf(at) ==
    CASE at = "getApiKey" -> 1
      [] at = "getGeoPolygon" -> 2
      [] at = "createSmartSearchStrategy" -> 3
      [] at \in {"areaLoop", "rangeLoop", "page", "pageSleep", "taskSleep"} -> 4
      [] at \in {"stage2", "hostLoop", "hostFetch", "refresh", "hostSleep"} -> 5
      [] at = "save" -> 6
      [] OTHER -> 7

StageOrderStep ==
    /\ StageOf(pc') >= StageOf(pc)
    /\ StageOf(pc') <= StageOf(pc) + 1 \/ pc' \in {"done", "fatal"}
    /\ pc' = "page" =>
          /\ apiKey' # NoId
          /\ geoPolygon' # NoGeojson
          /\ priceRanges' # <<>>
          /\ searchUrl'.key = apiKey'
          /\ requested' = <<>>
    /\ StageOf(pc') > 4 /\ pc' # "fatal" =>
          \/ DebugCapReached(discoveredListingIds')
          \/ /\ areaIndex' = searchStrategy'
             /\ Len(started') = searchStrategy' * Len(priceRanges')
    /\ requested' # requested =>
          /\ StageOf(pc) = 5
          /\ csvRows = <<>>
    /\ csvRows' # csvRows =>
          /\ pc = "save"
          /\ hostIndex = Len(hostIds)
                \/ (DEBUG_MODE /\ agenciesFound >= DEBUG_MAX_AGENCIES)
          /\ Len(requested) = hostIndex

\* C20: the stages run in the order credential acquisition, geocoding, grid
\* planning, listing discovery, host resolution, output, never backwards and
\* never skipping one except to end; a search request is in flight only with
\* a credential and a polygon, before any host profile request; a host
\* profile request is issued only after every planned task of every area was
\* started and left (or the debug cap ended discovery); the output is written
\* only after the host loop was left, with no profile request after it.
C20_StageOrder == [][StageOrderStep]_vars

C20_Witness ==
    /\ pc = "done"
    /\ csvRows # <<>>
    /\ Len(started) = NumCells * HISTOGRAM_ITEMS_COUNT
    /\ NumCells > 0
    /\ Len(requested) > 1

\* Nothing of the later stages has happened: no search task started, no
\* search request built, no host profile requested, no row written
NothingRequested ==
    /\ started = <<>>
    /\ searchUrl = NoSearchUrl
    /\ requested = <<>>
    /\ csvRows = <<>>

SetupFailedStep ==
    /\ pc \notin {"getApiKey", "getGeoPolygon"} /\ (apiKey = NoId \/ geoPolygon = NoGeojson)
          => pc = "fatal" /\ NothingRequested
    /\ pc' = "fatal" => pc \in {"getApiKey", "getGeoPolygon"} /\ NothingRequested'
    /\ pc # "fatal"

\* C21: when the first getApiKey or getGeoPolygon throws, main() ends in its
\* catch: a run that has left the setup without a credential or without a
\* polygon is in the error state, has started no search task, requested no
\* host profile and written no row, and takes no further step.
C21_SetupFailureAborts == [][SetupFailedStep]_vars

C21_Witness ==
    /\ pc = "fatal"
    /\ apiKey # NoId
    /\ geoPolygon = NoGeojson
    /\ NothingRequested

\* Positions of the results whose geometry is a polygon or a multi-polygon
PolygonResults ==
    {i \in 1..Len(results) : results[i].geojson.type \in {"Polygon", "MultiPolygon"}}

\* C22: once the geocoder has answered, getGeoPolygon has returned the
\* geojson of the first result, in response order, whose geometry type is
\* Polygon or MultiPolygon, whatever comes before it, and has thrown exactly
\* when no result has such a geometry.
C22_FirstPolygon ==
    results # <<>> =>
       IF PolygonResults = {}
         THEN pc = "fatal" /\ geoPolygon = NoGeojson
         ELSE /\ pc = "createSmartSearchStrategy"
              /\ \E i \in PolygonResults :
                    /\ \A j \in PolygonResults : i <= j
                    /\ geoPolygon = results[i].geojson

C22_Witness ==
    /\ Len(results) = 3
    /\ results[1].geojson.type = "Point"
    /\ results[2].geojson.type = "MultiPolygon"
    /\ results[3].geojson.type = "Polygon"
    /\ geoPolygon = results[2].geojson

\* The lattice points that lie within the polygon the geocoder returned
WithinInput ==
    IF geoPolygon.type = "MultiPolygon"
      THEN UNION {geoPolygon.coordinates[i].inside :
                     i \in 1..Len(geoPolygon.coordinates)}
      ELSE geoPolygon.coordinates.inside

\* The polygon the geocoder returned encloses no area
ZeroArea ==
    IF geoPolygon.type = "MultiPolygon"
      THEN \A i \in 1..Len(geoPolygon.coordinates) : geoPolygon.coordinates[i].flat
      ELSE geoPolygon.coordinates.flat

CapHolds(listingIds) == DEBUG_MODE /\ Len(listingIds) >= DEBUG_MAX_LISTINGS

CapStep ==
    /\ CapHolds(discoveredListingIds') => pc' \in {"stage2", "hostLoop", "done"}
    /\ CapHolds(discoveredListingIds) =>
          /\ started' = started
          /\ searchIndex' = searchIndex
    /\ ~CapHolds(discoveredListingIds') /\ pc = "page" /\ lastResponse'.more = FALSE
          => pc' = "taskSleep"

AgencyRecords(hosts) == {i \in 1..Len(hosts) : hosts[i].isAgency}

ThirdAgencyStep ==
    DEBUG_MODE =>
       /\ Cardinality(AgencyRecords(finalHosts')) <= DEBUG_MAX_AGENCIES
       /\ Cardinality(AgencyRecords(finalHosts)) >= DEBUG_MAX_AGENCIES =>
             /\ pc \in {"save", "done"}
             /\ requested' = requested
             /\ finalHosts' = finalHosts
             /\ pc' = "done"
             /\ csvRows' = [i \in 1..Len(finalHosts) |->
                               [hostId |-> finalHosts[i].id,
                                listingCount |-> finalHosts[i].listingCount,
                                isAgency |-> finalHosts[i].isAgency]]

\* C25: in debug mode the result never holds more than 3 agency records;
\* once it holds 3, main() is at the output stage, no profile is requested
\* and no record added any more, and its next step writes one row per
\* record of the result.
C25_ThirdAgencyStops == [][ThirdAgencyStep]_vars

C25_Witness ==
    /\ pc = "done"
    /\ DEBUG_MODE
    /\ Cardinality(AgencyRecords(finalHosts)) = DEBUG_MAX_AGENCIES
    /\ hostIndex < Len(hostIds)
    /\ Len(requested) = hostIndex
    /\ Len(csvRows) = Len(finalHosts)

\* Requests sent and not yet answered, by kind: main() is suspended in the
\* await of a search page, of the bootstrap page or of the geocoder; a
\* profile was requested and its outcome is not yet recorded
PendingSearch == IF pc = "page" THEN 1 ELSE 0

PendingBootstrap == IF pc \in {"getApiKey", "refresh"} THEN 1 ELSE 0

PendingGeocode == IF pc = "getGeoPolygon" THEN 1 ELSE 0

PendingProfiles == Len(requested) - Len(FetchOutcomes)

InFlight == PendingSearch + PendingBootstrap + PendingGeocode + PendingProfiles

\* C26: at most one request, of any kind, is in flight at any time: a search
\* page, a host profile, the geocoding or a credential bootstrap is only
\* requested once the request before it has returned or failed.
C26_OneRequestInFlight ==
    /\ InFlight <= 1
    /\ PendingProfiles >= 0
    /\ pc = "hostFetch" <=> PendingProfiles = 1

C26_Witness ==
    /\ pc = "hostFetch"
    /\ InFlight = 1
    /\ Len(requested) > 1
    /\ "refreshOk" \in {events[i] : i \in 1..Len(events)}
    /\ started # <<>>

\* C27 (as stated): no host profile request is in flight while a credential
\* refresh is; every refresh follows a run of 3 consecutive failed fetches
\* of its own, so that a run of 3 failures causes one refresh and not one
\* per failing call; and a profile request in flight carries the credential
\* issued last, never one that a refresh replaced.
C27_Original ==
    /\ pc = "refresh" => Len(requested) = Len(FetchOutcomes)
    /\ \A i \in 1..Len(events) :
          events[i] \in RefreshEvents =>
             /\ i > REFRESH_THRESHOLD
             /\ \A j \in (i - REFRESH_THRESHOLD)..(i - 1) : events[j] = "fail"
    /\ pc = "hostFetch" => currentHostApiKey = keysIssued

Members(s) == {s[i] : i \in 1..Len(s)}

\* C28: against the mock collaborators, when discovery has ended the listing
\* set is {1, 2, 3} and the host set {1, 2}, each id stored once; when the
\* run has ended the output has exactly 2 rows, the one of host 1 with
\* isAgency true and the one of host 2 with isAgency false.
C28_Scenario ==
    /\ pc \notin {"areaLoop", "rangeLoop", "page", "pageSleep", "taskSleep"} =>
          /\ Members(discoveredListingIds) = {1, 2, 3}
          /\ Len(discoveredListingIds) = 3
          /\ Members(discoveredHostIds) = {1, 2}
          /\ Len(discoveredHostIds) = 2
          /\ Len(started) = 2 * Len(priceRanges)
    /\ pc = "done" =>
          /\ Len(csvRows) = 2
          /\ \E i, j \in 1..Len(csvRows) :
                /\ csvRows[i].hostId = 1 /\ csvRows[i].isAgency
                /\ csvRows[j].hostId = 2 /\ ~csvRows[j].isAgency

C28_Witness ==
    /\ pc = "done"
    /\ Len(csvRows) = 2
    /\ discoveredListingIds = <<2, 3, 1>>
    /\ discoveredHostIds = <<1, 2>>
    /\ csvRows[1].listingCount = 6

\* main() is suspended in a request of the discovery or host stage
Requesting == pc \in {"page", "hostFetch", "refresh"}

\* C29 (as stated): when a request of the discovery or host stage has
\* returned or failed, main() sleeps before it sends the next one: after a
\* page before the next page, after a task before the next task, after a
\* host profile fetch before the next, and after a failed host profile
\* fetch before the credential refresh it leads to; or the stage is over
\* and no request of it follows.
C29_Original ==
    [][Requesting =>
          pc' \in {"pageSleep", "taskSleep", "hostSleep", "stage2", "save"}]_vars

-----------------------------------------------------------------------------
(* The review scrapers (src/src/airbnb/scraper.ts: the Airbnb scraper at   *)
(* lines 1-510, the Booking scraper at lines 1620-2139).  Each is one      *)
(* sequential main() over the csv files of its input directory; pc names   *)
(* the await it is suspended at.  A run is one execution of the process;   *)
(* the directories outlive it.  A csv file is the sequence of its data     *)
(* lines, each naming a property / hotel (1..NumItems) or not parsing (0). *)
(* A property / hotel has at most MaxPages pages of reviews, a page one    *)
(* review at most; makeRequest is one call that returns a body or throws.  *)

limit == 50            \* reviews asked for per page of the Airbnb endpoint
rows == 10             \* reviews per page of the Booking endpoint

csvFiles == 1..NumFiles

Lines == 0..NumItems

\* lines 178-212: the lines with at least six columns become properties
readPropertiesFromCsv(file) == SelectSeq(inputDir[file], LAMBDA l : l # 0)

\* lines 1716-1731: every non-empty line is a url
readUrlsFromCsv(file) == inputDir[file]

RECURSIVE hotelInfoMap(_, _)

\* lines 1689-1714, 2019-2043: the hotels of the urls that match the pattern,
\* each once, in the order of their first url
hotelInfoMap(urls, i) ==
    IF i = 0 THEN <<>>
    ELSE LET before == hotelInfoMap(urls, i - 1)
         IN IF urls[i] = 0 \/ \E j \in 1..Len(before) : before[j] = urls[i]
              THEN before
              ELSE Append(before, urls[i])

uniqueHotels(file) ==
    hotelInfoMap(readUrlsFromCsv(file), Len(readUrlsFromCsv(file)))

\* lines 217-221, 1733-1737: the output of <name>.csv is <name>.json, looked
\* up in the output directory
outputFileExists(file) == outputDir[file] # <<>>

\* lines 369-389, 1975-1995: the json document, stamped with the time of
\* the run that writes it
jsonOutput(reviews, file) ==
    [input_file |-> file, scraped_at |-> run,
     total_reviews |-> Len(reviews), reviews |-> reviews]

Review(item, off) == [item |-> item, offset |-> off]

\* the file processCsvFile is working on
currentFile == fileIndex

hostsFinderVars == <<DEBUG_MODE, DEBUG_LISTINGS_ONLY, optThreshold, apiKey,
                     planVars, discoveryVars, discoveredListingIds,
                     discoveredHostIds, hostVars, transportVars>>

\* lines 457-487: the Airbnb scraper fetched its key from the home page
ScraperApiKeyOk ==
    /\ pc = "scraperMain"
    /\ scraper = "airbnb"
    /\ pc' = "fileLoop"
    /\ UNCHANGED <<hostsFinderVars, scraperVars>>

\* lines 481-487: it could not; process.exit(1)
ScraperApiKeyFail ==
    /\ pc = "scraperMain"
    /\ scraper = "airbnb"
    /\ pc' = "exit"
    /\ UNCHANGED <<hostsFinderVars, scraperVars>>

\* lines 2091-2122: the Booking scraper needs no key and lists the files
BookingMain ==
    /\ pc = "scraperMain"
    /\ scraper = "booking"
    /\ pc' = "fileLoop"
    /\ UNCHANGED <<hostsFinderVars, scraperVars>>

\* lines 397-401, 2003-2007: the output of the next file exists; skip it
SkipFile ==
    /\ pc = "fileLoop"
    /\ fileIndex < NumFiles
    /\ outputFileExists(fileIndex + 1)
    /\ fileIndex' = fileIndex + 1
    /\ UNCHANGED <<pc, hostsFinderVars, scraper, inputDir, outputDir, run,
                   properties, itemIndex, allReviews, fetchedReviews,
                   pageOffset, maxOffset, fetchLog, processedLog,
                   lastPage>>

\* lines 403-409, 2009-2015: the next file names nothing to process
NoPropertiesFound ==
    /\ pc = "fileLoop"
    /\ fileIndex < NumFiles
    /\ ~outputFileExists(fileIndex + 1)
    /\ IF scraper = "airbnb"
         THEN Len(readPropertiesFromCsv(fileIndex + 1)) = 0
         ELSE Len(readUrlsFromCsv(fileIndex + 1)) = 0
    /\ fileIndex' = fileIndex + 1
    /\ UNCHANGED <<pc, hostsFinderVars, scraper, inputDir, outputDir, run,
                   properties, itemIndex, allReviews, fetchedReviews,
                   pageOffset, maxOffset, fetchLog, processedLog,
                   lastPage>>

\* lines 403-417, 2009-2051: read the next file and enter the loop over its
\* properties / unique hotels
StartFile ==
    /\ pc = "fileLoop"
    /\ fileIndex < NumFiles
    /\ ~outputFileExists(fileIndex + 1)
    /\ IF scraper = "airbnb"
         THEN /\ Len(readPropertiesFromCsv(fileIndex + 1)) # 0
              /\ properties' = readPropertiesFromCsv(fileIndex + 1)
         ELSE /\ Len(readUrlsFromCsv(fileIndex + 1)) # 0
              /\ properties' = uniqueHotels(fileIndex + 1)
    /\ fileIndex' = fileIndex + 1
    /\ itemIndex' = 0
    /\ allReviews' = <<>>
    /\ pc' = "itemLoop"
    /\ UNCHANGED <<hostsFinderVars, scraper, inputDir, outputDir, run,
                   fetchedReviews, pageOffset, maxOffset, fetchLog,
                   processedLog,
                   lastPage>>

\* lines 419-425, 226-235: the next property; fetchPropertyReviews sends the
\* request for its first page
StartProperty ==
    /\ pc = "itemLoop"
    /\ scraper = "airbnb"
    /\ itemIndex < Len(properties)
    /\ itemIndex' = itemIndex + 1
    /\ fetchedReviews' = <<>>
    /\ pageOffset' = 0
    /\ fetchLog' = fetchLog \cup {<<run, currentFile>>}
    /\ pc' = "reviewsPage"
    /\ lastPage' = "none"
    /\ UNCHANGED <<hostsFinderVars, scraper, inputDir, outputDir, run,
                   fileIndex, properties, allReviews, maxOffset,
                   processedLog>>

\* lines 2053-2057, 1742-1747, 1786-1792: the next hotel; scrapeHotelReviews
\* asks getMaxOffset, which requests the first page
StartHotel ==
    /\ pc = "itemLoop"
    /\ scraper = "booking"
    /\ itemIndex < Len(properties)
    /\ itemIndex' = itemIndex + 1
    /\ fetchedReviews' = <<>>
    /\ fetchLog' = fetchLog \cup {<<run, currentFile>>}
    /\ pc' = "maxOffset"
    /\ lastPage' = "none"
    /\ UNCHANGED <<hostsFinderVars, scraper, inputDir, outputDir, run,
                   fileIndex, properties, allReviews, pageOffset, maxOffset,
                   processedLog>>

\* the fetch function returns `reviews` to processCsvFile, which adds them
\* to the reviews of the file and sleeps a second (lines 426-432, 2057-2062)
ReturnReviews(reviews) ==
    /\ allReviews' = allReviews \o reviews
    /\ pc' = "itemDelay"

\* lines 234-250: a page with reviews; keep them, advance, sleep 500 ms
ReviewsPageOk ==
    /\ pc = "reviewsPage"
    /\ scraper = "airbnb"
    /\ pageOffset < MaxPages * limit
    /\ fetchedReviews' =
          Append(fetchedReviews, Review(properties[itemIndex], pageOffset))
    /\ pageOffset' = pageOffset + limit
    /\ pc' = "pageDelay"
    /\ lastPage' = "reviews"
    /\ UNCHANGED <<hostsFinderVars, scraper, inputDir, outputDir, run,
                   fileIndex, properties, itemIndex, allReviews, maxOffset,
                   fetchLog, processedLog>>

\* lines 236-238, 256: a page without reviews ends the pagination
ReviewsPageEmpty ==
    /\ pc = "reviewsPage"
    /\ scraper = "airbnb"
    /\ ReturnReviews(fetchedReviews)
    /\ lastPage' = "empty"
    /\ UNCHANGED <<hostsFinderVars, scraper, inputDir, outputDir, run,
                   fileIndex, properties, itemIndex, fetchedReviews,
                   pageOffset, maxOffset, fetchLog, processedLog>>

\* Mutant: a failed page makes the Airbnb pagination drop what it has.
ReviewsPageErrorDiscards ==
    /\ pc = "reviewsPage"
    /\ scraper = "airbnb"
    /\ ReturnReviews(<<>>)
    /\ lastPage' = "error"
    /\ UNCHANGED <<hostsFinderVars, scraper, inputDir, outputDir, run,
                   fileIndex, properties, itemIndex, fetchedReviews,
                   pageOffset, maxOffset, fetchLog, processedLog>>

\* lines 251-256: the request or its parsing threw; the pagination ends with
\* what it has
ReviewsPageError ==
    /\ pc = "reviewsPage"
    /\ scraper = "airbnb"
    /\ ReturnReviews(fetchedReviews)
    /\ lastPage' = "error"
    /\ UNCHANGED <<hostsFinderVars, scraper, inputDir, outputDir, run,
                   fileIndex, properties, itemIndex, fetchedReviews,
                   pageOffset, maxOffset, fetchLog, processedLog>>

\* lines 248-249, 234-235: the delay is over; request the next page
ReviewsPageDelay ==
    /\ pc = "pageDelay"
    /\ scraper = "airbnb"
    /\ fetchLog' = fetchLog \cup {<<run, currentFile>>}
    /\ pc' = "reviewsPage"
    /\ UNCHANGED <<hostsFinderVars, scraper, inputDir, outputDir, run,
                   fileIndex, properties, itemIndex, allReviews,
                   fetchedReviews, pageOffset, maxOffset, processedLog,
                   lastPage>>

\* lines 1747-1768, 1792-1816: getMaxOffset found the offset of the last
\* page; the loop requests the page at offset 0
MaxOffsetOk(last) ==
    /\ pc = "maxOffset"
    /\ maxOffset' = last
    /\ pageOffset' = 0
    /\ fetchLog' = fetchLog \cup {<<run, currentFile>>}
    /\ pc' = "reviewsPage"
    /\ lastPage' = "offset"
    /\ UNCHANGED <<hostsFinderVars, scraper, inputDir, outputDir, run,
                   fileIndex, properties, itemIndex, allReviews,
                   fetchedReviews, processedLog>>

\* lines 1776-1779: getMaxOffset's request threw; the hotel yields nothing
MaxOffsetError ==
    /\ pc = "maxOffset"
    /\ ReturnReviews(<<>>)
    /\ lastPage' = "error"
    /\ UNCHANGED <<hostsFinderVars, scraper, inputDir, outputDir, run,
                   fileIndex, properties, itemIndex, fetchedReviews,
                   pageOffset, maxOffset, fetchLog, processedLog>>

\* lines 1767-1772: a page arrived with n reviews; keep them, sleep 500 ms
HotelPageOk(n) ==
    /\ pc = "reviewsPage"
    /\ scraper = "booking"
    /\ fetchedReviews' =
          fetchedReviews \o
             [k \in 1..n |-> Review(properties[itemIndex], pageOffset)]
    /\ pc' = "pageDelay"
    /\ lastPage' = IF n > 0 THEN "reviews" ELSE "empty"
    /\ UNCHANGED <<hostsFinderVars, scraper, inputDir, outputDir, run,
                   fileIndex, properties, itemIndex, allReviews, pageOffset,
                   maxOffset, fetchLog, processedLog>>

\* lines 1776-1779: a page request threw; the hotel yields nothing
HotelPageError ==
    /\ pc = "reviewsPage"
    /\ scraper = "booking"
    /\ ReturnReviews(<<>>)
    /\ lastPage' = "error"
    /\ UNCHANGED <<hostsFinderVars, scraper, inputDir, outputDir, run,
                   fileIndex, properties, itemIndex, fetchedReviews,
                   pageOffset, maxOffset, fetchLog, processedLog>>

\* lines 1758, 1771-1775: the delay is over; request the next page, or
\* return the reviews when the last page has been fetched
HotelPageDelay ==
    /\ pc = "pageDelay"
    /\ scraper = "booking"
    /\ pageOffset' = pageOffset + rows
    /\ IF pageOffset' <= maxOffset
         THEN /\ fetchLog' = fetchLog \cup {<<run, currentFile>>}
              /\ pc' = "reviewsPage"
              /\ UNCHANGED allReviews
         ELSE /\ ReturnReviews(fetchedReviews)
              /\ UNCHANGED fetchLog
    /\ UNCHANGED <<hostsFinderVars, scraper, inputDir, outputDir, run,
                   fileIndex, properties, itemIndex, fetchedReviews,
                   maxOffset, processedLog,
                   lastPage>>

\* lines 431-432, 2061-2062: the delay between properties / hotels is over
ItemDelay ==
    /\ pc = "itemDelay"
    /\ pc' = "itemLoop"
    /\ UNCHANGED <<hostsFinderVars, scraperVars>>

\* lines 439-452, 2069-2085: the loop is over; write the output file if any
\* review was collected, print the summary, return to main()
FinishFile ==
    /\ pc = "itemLoop"
    /\ itemIndex = Len(properties)
    /\ outputDir' =
          IF Len(allReviews) > 0
            THEN [outputDir EXCEPT
                     ![currentFile] = <<jsonOutput(allReviews, currentFile)>>]
            ELSE outputDir
    /\ processedLog' = processedLog \cup {<<run, currentFile>>}
    /\ pc' = "fileLoop"
    /\ UNCHANGED <<hostsFinderVars, scraper, inputDir, run, fileIndex,
                   properties, itemIndex, allReviews, fetchedReviews,
                   pageOffset, maxOffset, fetchLog,
                   lastPage>>

\* lines 499-507, 2124-2132: every file was handed to processCsvFile
BatchCompleted ==
    /\ pc = "fileLoop"
    /\ fileIndex = NumFiles
    /\ pc' = "exit"
    /\ UNCHANGED <<hostsFinderVars, scraperVars>>

\* the scraper is started again over the same directories
NextRun ==
    /\ pc = "exit"
    /\ run < MaxRuns
    /\ run' = run + 1
    /\ fileIndex' = 0
    /\ properties' = <<>>
    /\ itemIndex' = 0
    /\ allReviews' = <<>>
    /\ fetchedReviews' = <<>>
    /\ pageOffset' = 0
    /\ maxOffset' = 0
    /\ pc' = "scraperMain"
    /\ lastPage' = "none"
    /\ UNCHANGED <<hostsFinderVars, scraper, inputDir, outputDir, fetchLog,
                   processedLog>>

\* the first run of either scraper over a directory of NumFiles csv files
\* and an empty output directory; the host finder does not run
InitScraper ==
    /\ NoTransport
    /\ pc = "scraperMain"
    /\ DEBUG_MODE = FALSE
    /\ DEBUG_LISTINGS_ONLY = FALSE
    /\ optThreshold = AGENCY_THRESHOLD
    /\ apiKey = NoId
    /\ keysIssued = 0
    /\ currentHostApiKey = NoId
    /\ results = <<>>
    /\ geoPolygon = NoGeojson
    /\ cells = <<>>
    /\ planCeiling = PRICE_CEILING
    /\ planRounding = 0
    /\ priceRanges = <<>>
    /\ searchStrategy = 0
    /\ NothingSearched
    /\ NothingResolved
    /\ scraper \in {"airbnb", "booking"}
    /\ inputDir \in [csvFiles -> SeqsUpTo(Lines, MaxUrls)]
    /\ outputDir = [file \in csvFiles |-> <<>>]
    /\ run = 1
    /\ fileIndex = 0
    /\ properties = <<>>
    /\ itemIndex = 0
    /\ allReviews = <<>>
    /\ fetchedReviews = <<>>
    /\ pageOffset = 0
    /\ maxOffset = 0
    /\ lastPage = "none"
    /\ fetchLog = {}
    /\ processedLog = {}

NextScraper ==
    \/ ScraperApiKeyOk
    \/ ScraperApiKeyFail
    \/ BookingMain
    \/ SkipFile
    \/ NoPropertiesFound
    \/ StartFile
    \/ StartProperty
    \/ StartHotel
    \/ ReviewsPageOk
    \/ ReviewsPageEmpty
    \/ ReviewsPageError
    \/ ReviewsPageDelay
    \/ \E page \in 0..(MaxPages - 1) : MaxOffsetOk(page * rows)
    \/ MaxOffsetError
    \/ \E n \in 0..1 : HotelPageOk(n)
    \/ HotelPageError
    \/ HotelPageDelay
    \/ ItemDelay
    \/ FinishFile
    \/ BatchCompleted
    \/ NextRun

ScraperSpec == InitScraper /\ [][NextScraper]_vars

\* the files an earlier run has processed
ProcessedBefore ==
    {file \in csvFiles : \E r \in 1..(run - 1) : <<r, file>> \in processedLog}

\* C30: once a run has processed an input file, every later run skips it:
\* no request is sent for it and its output file stays as it is, also when
\* its properties / hotels yielded no review or all failed.
C30_Original ==
    [][\A file \in ProcessedBefore :
          /\ outputDir'[file] = outputDir[file]
          /\ <<run', file>> \in fetchLog' => <<run', file>> \in fetchLog]_vars

-----------------------------------------------------------------------------
(* makeRequest, the retrying transport, attempt by attempt: of the host    *)
(* finder (src/src/airbnb/hosts-finder.ts lines 96-134) and of the two     *)
(* review scrapers (src/src/airbnb/scraper.ts lines 95-151 and 1624-1687). *)
(* Every caller uses the default maxRetries.  A fetch either yields a body *)
(* of an ok response or fails: by the abort timer, by a response that is   *)
(* not ok, or in the network.                                              *)

Programs == {"hosts-finder", "airbnb", "booking"}

Bodies == 1..NumBodies

FetchErrors == {"AbortError", "HTTP", "network"}

\* the default of the maxRetries parameter
maxRetries == IF transport = "hosts-finder" THEN 5 ELSE 3

RECURSIVE pow(_, _)

\* Math.pow on small naturals
pow(base, exponent) ==
    IF exponent = 0 THEN 1 ELSE base * pow(base, exponent - 1)

min(a, b) == IF a < b THEN a ELSE b

\* Mutant: the backoff doubles without a cap.
delayUncapped ==
    IF transport = "hosts-finder"
      THEN 1000 * pow(2, attempt)
      ELSE 1000 * pow(2, attempt - 1)

\* lines 127 (host finder), 145 and 1678 (scrapers): the delay slept after
\* the failed attempt
delay ==
    IF transport = "hosts-finder"
      THEN min(1000 * pow(2, attempt), 10000)
      ELSE min(1000 * pow(2, attempt - 1), 5000)

\* the state of the program that called makeRequest
callerVars == <<DEBUG_MODE, DEBUG_LISTINGS_ONLY, optThreshold, apiKey,
                planVars, scraperVars, discoveryVars, discoveredListingIds,
                discoveredHostIds, hostVars>>

\* lines 113-120: the response is ok and its text is read; return it
FetchOk(body) ==
    /\ pc = "fetch"
    /\ attempts' = Append(attempts, [ok |-> TRUE, body |-> body,
                                     error |-> "none"])
    /\ responseText' = body
    /\ pc' = "returned"
    /\ UNCHANGED <<callerVars, transport, attempt, delays>>

\* Mutant: the last failed attempt is followed by a delay like the others.
FetchFailedSleepsLast(error) ==
    /\ pc = "fetch"
    /\ attempts' = Append(attempts, [ok |-> FALSE, body |-> NoBody,
                                     error |-> error])
    /\ delays' = Append(delays, delay)
    /\ pc' = IF attempt = maxRetries THEN "thrown" ELSE "retryDelay"
    /\ UNCHANGED <<callerVars, transport, attempt, responseText>>

\* lines 121-130: the attempt failed; throw if it was the last one, else
\* start the backoff delay
FetchFailed(error) ==
    /\ pc = "fetch"
    /\ attempts' = Append(attempts, [ok |-> FALSE, body |-> NoBody,
                                     error |-> error])
    /\ LET isLastAttempt == attempt = maxRetries
       IN IF isLastAttempt
            THEN /\ pc' = "thrown"
                 /\ UNCHANGED delays
            ELSE /\ delays' = Append(delays, delay)
                 /\ pc' = "retryDelay"
    /\ UNCHANGED <<callerVars, transport, attempt, responseText>>

\* lines 97, 129: the delay is over; the loop goes to the next attempt
RetryDelayOver ==
    /\ pc = "retryDelay"
    /\ attempt' = attempt + 1
    /\ attempt' <= maxRetries
    /\ pc' = "fetch"
    /\ UNCHANGED <<callerVars, transport, attempts, delays, responseText>>

\* one call of makeRequest by any of the three programs, its first fetch
\* in flight
InitTransport ==
    /\ pc = "fetch"
    /\ DEBUG_MODE = FALSE
    /\ DEBUG_LISTINGS_ONLY = FALSE
    /\ optThreshold = AGENCY_THRESHOLD
    /\ apiKey = NoId
    /\ keysIssued = 0
    /\ currentHostApiKey = NoId
    /\ results = <<>>
    /\ geoPolygon = NoGeojson
    /\ cells = <<>>
    /\ planCeiling = PRICE_CEILING
    /\ planRounding = 0
    /\ priceRanges = <<>>
    /\ searchStrategy = 0
    /\ NothingSearched
    /\ NothingResolved
    /\ NoScraper
    /\ transport \in Programs
    /\ attempt = 1
    /\ attempts = <<>>
    /\ delays = <<>>
    /\ responseText = NoBody

NextTransport ==
    \/ \E body \in Bodies : FetchOk(body)
    \/ \E error \in FetchErrors : FetchFailed(error)
    \/ RetryDelayOver

TransportSpec == InitTransport /\ [][NextTransport]_vars

\* the attempts of the call that failed
FailedAttempts == {i \in 1..Len(attempts) : ~attempts[i].ok}

\* C31: makeRequest makes at most maxRetries attempts (5 in the host finder,
\* 3 in the review scrapers), returns the body of the first successful
\* attempt and makes no attempt after it, throws only after its last attempt
\* has failed, and sleeps after every failed attempt but the last.
C31_RetryBudget ==
    /\ Len(attempts) <= (IF transport = "hosts-finder" THEN 5 ELSE 3)
    /\ \A i \in 1..Len(attempts) : attempts[i].ok => i = Len(attempts)
    /\ pc = "returned" <=>
          Len(attempts) > 0 /\ attempts[Len(attempts)].ok
    /\ pc = "returned" => responseText = attempts[Len(attempts)].body
    /\ pc = "thrown" <=>
          /\ Len(attempts) = (IF transport = "hosts-finder" THEN 5 ELSE 3)
          /\ FailedAttempts = 1..Len(attempts)
    /\ Len(delays) =
          Cardinality(FailedAttempts) - (IF pc = "thrown" THEN 1 ELSE 0)

\* the host finder's call gave up after its fifth failed attempt
C31_Witness ==
    /\ transport = "hosts-finder"
    /\ pc = "thrown"
    /\ Len(attempts) = 5
    /\ Len(delays) = 4

\* the delays of a call in which every attempt failed
HostsFinderDelays == <<2000, 4000, 8000, 10000>>

ScraperDelays == <<1000, 2000>>

\* C32: the backoff delays of a call never decrease and are capped: the host
\* finder sleeps 2000, 4000, 8000, 10000 ms after its failed attempts 1 to
\* 4, a review scraper 1000, 2000 ms after its failed attempts 1 and 2; no
\* delay exceeds 10 s respectively 5 s.
C32_BackoffCapped ==
    LET expected == IF transport = "hosts-finder"
                      THEN HostsFinderDelays ELSE ScraperDelays
    IN /\ Len(delays) <= Len(expected)
       /\ \A k \in 1..Len(delays) :
             /\ delays[k] = expected[k]
             /\ delays[k] <= (IF transport = "hosts-finder"
                                THEN 10000 ELSE 5000)
             /\ k > 1 => delays[k - 1] <= delays[k]

\* the host finder has slept the capped delay after its fourth failure
C32_Witness ==
    /\ transport = "hosts-finder"
    /\ Len(delays) = 4
    /\ delays[4] = 10000
    /\ 1000 * pow(2, 4) > 10000

\* the task at hand is between its first request and its end by a failure
TaskUnfinished(at, response) ==
    \/ at \in {"page", "pageSleep"}
    \/ at = "taskSleep" /\ response.failed

\* C33: a task one of whose page requests fails changes neither set: from
\* its first request, through the pages fetched before the failure and the
\* failure itself, to the sleep that ends it, the listing set and the host
\* set stay what they were, and the listings of the earlier pages are gone.
FailedTaskStep ==
    /\ TaskUnfinished(pc, lastResponse) /\ TaskUnfinished(pc', lastResponse')
          => /\ discoveredListingIds' = discoveredListingIds
             /\ discoveredHostIds' = discoveredHostIds
    /\ pc = "taskSleep" /\ lastResponse.failed
          => /\ discoveredListingIds' = discoveredListingIds
             /\ discoveredHostIds' = discoveredHostIds
    /\ lastResponse'.failed => allListings' = <<>>

C33_FailedTaskChangesNothing == [][FailedTaskStep]_vars

\* a task failed on its second page and nothing is known, although its
\* first page held a listing
C33_Witness ==
    /\ pc = "taskSleep"
    /\ lastResponse.failed
    /\ offset = PAGE_LIMIT
    /\ discoveredListingIds = <<>>
    /\ discoveredHostIds = <<>>

\* the step in which getApiKey, called by the host loop, throws
RefreshFails == pc = "refresh" /\ events' = Append(events, "refreshFail")

\* the step in which the profile fetch that follows a failed refresh fails
FailsAfterFailedRefresh ==
    /\ pc = "hostFetch"
    /\ Len(events) > 0
    /\ events[Len(events)] = "refreshFail"
    /\ events' = Append(events, "fail")

\* C34: a failed refresh in the host stage is absorbed: the loop goes on to
\* its sleep, the credential in use and the failure counter keep their
\* values and no record is lost, so the next profile fetch that fails goes
\* straight to another refresh.
C34_FailedRefreshAbsorbed ==
    [][/\ RefreshFails =>
             /\ pc' = "hostSleep"
             /\ currentHostApiKey' = currentHostApiKey
             /\ consecutiveHostErrors' = consecutiveHostErrors
             /\ consecutiveHostErrors >= REFRESH_THRESHOLD
             /\ finalHosts' = finalHosts
       /\ FailsAfterFailedRefresh => pc' = "refresh"]_vars

\* the refresh failed, the next fetch failed, and the second refresh is
\* being requested with the credential of start-up still in use
C34_Witness ==
    /\ pc = "refresh"
    /\ Len(events) >= 2
    /\ events[Len(events)] = "fail"
    /\ events[Len(events) - 1] = "refreshFail"
    /\ currentHostApiKey = apiKey

\* s is what t began with
IsPrefix(s, t) == Len(s) <= Len(t) /\ SubSeq(t, 1, Len(s)) = s

\* the elements t has after those of s
Added(s, t) == {t[i] : i \in (Len(s) + 1)..Len(t)}

\* the step in which the items of a task are processed (lines 352-366)
TaskProcessed == pc = "page" /\ pc' # "pageSleep" /\ ~lastResponse'.failed

\* what a step of discovery does to the two sets: both keep what they have;
\* only the processing of a task's items adds to them, as many listings as
\* the task counts as new (foundCount), and every host id it adds is
\* embedded in an item of the task whose listing id it adds as well
DiscoveryStep ==
    /\ IsPrefix(discoveredListingIds, discoveredListingIds')
    /\ IsPrefix(discoveredHostIds, discoveredHostIds')
    /\ Len(discoveredListingIds') =
          Len(discoveredListingIds) + (IF TaskProcessed THEN foundCount' ELSE 0)
    /\ ~TaskProcessed => discoveredHostIds' = discoveredHostIds
    /\ \A hid \in Added(discoveredHostIds, discoveredHostIds') :
          \E k \in 1..Len(allListings') :
             /\ allListings'[k].hid = hid
             /\ allListings'[k].lid
                   \in Added(discoveredListingIds, discoveredListingIds')

\* C35: throughout discovery every host id of the host set was embedded in
\* a result item whose listing id is in the listing set, the host set is
\* never larger than the listing set, both sets only grow, and the
\* per-task counts of new listings add up to the size of the listing set
\* (the sets start empty and every step adds what DiscoveryStep says).
C35_DiscoverySets ==
    /\ [](Len(discoveredHostIds) <= Len(discoveredListingIds))
    /\ [](NoDup(discoveredListingIds) /\ NoDup(discoveredHostIds))
    /\ [][DiscoveryStep]_vars

\* a task whose item names a known listing and an unknown host has been
\* processed: the host set stays empty beside a listing set of one
C35_Witness ==
    /\ pc = "taskSleep"
    /\ ~lastResponse.failed
    /\ Len(allListings) = 1
    /\ allListings[1].hid # NoId
    /\ SetHas(discoveredListingIds, allListings[1].lid)
    /\ foundCount = 0
    /\ discoveredHostIds = <<>>
    /\ Len(discoveredListingIds) = 1

\* the credential the bootstrap page handed out first, at start-up
StartupKey == 1

\* lines 255, 440, 501: apiKey is assigned once, by the getApiKey call of
\* start-up; currentHostApiKey is initialised with it when stage 3 begins
\* and assigned again only by a refresh
CredentialStep ==
    /\ apiKey' # apiKey => pc = "getApiKey"
    /\ currentHostApiKey' # currentHostApiKey =>
          \/ pc = "stage2" /\ currentHostApiKey' = apiKey
          \/ pc = "refresh"
    /\ keysIssued' # keysIssued => pc \in {"getApiKey", "refresh"}

\* C36: every search request of discovery carries the credential of
\* start-up: a credential changes only through a refresh of the host
\* stage, discovery requests no refresh however many of its tasks fail, and
\* no search request carries a refreshed credential.
C36_SearchKeepsStartupKey ==
    /\ [](pc = "page" => searchUrl.key = StartupKey /\ apiKey = StartupKey)
    /\ [](StageOf(pc) = 4 =>
             /\ keysIssued = StartupKey
             /\ \A i \in 1..Len(events) : events[i] \notin RefreshEvents)
    /\ [](searchUrl.key \in {NoParam, StartupKey})
    /\ [](currentHostApiKey \notin {NoId, StartupKey} => StageOf(pc) >= 5)
    /\ [][CredentialStep]_vars

\* the fourth task in a row has come back without a listing, this one by a
\* failure, and its request carried the only credential issued so far
C36_Witness ==
    /\ pc = "taskSleep"
    /\ lastResponse.failed
    /\ Len(started) > REFRESH_THRESHOLD
    /\ discoveredListingIds = <<>>
    /\ searchUrl.key = apiKey
    /\ keysIssued = StartupKey

\* the step in which a profile response without a user record is handled
NoUserStep == pc = "hostFetch" /\ events' = Append(events, "nouser")

\* the profile fetches answered with a user record, up to the j-th fetch
OkRank(j) == Cardinality({i \in 1..j : FetchOutcomes[i] = "ok"})

\* the users endpoint answered every fetch so far with the user asked for
Faithful ==
    \A j \in 1..Len(FetchOutcomes) :
       FetchOutcomes[j] = "ok" => finalHosts[OkRank(j)].id = requested[j]

\* the hosts whose profile response held no user record
NoUserHosts ==
    {requested[i] : i \in {j \in 1..Len(FetchOutcomes) :
                              FetchOutcomes[j] = "nouser"}}

\* C37: a profile response that parses but holds no user record is a
\* success: the failure counter goes to 0, no refresh is requested and the
\* loop goes on to its sleep; it appends no record, so the records are
\* those of the responses with a user, and the output has no row of that
\* host (the users endpoint answering with the users asked for).
C37_NoUserIsSuccess ==
    /\ [][NoUserStep =>
             /\ consecutiveHostErrors' = 0
             /\ pc' = "hostSleep"
             /\ finalHosts' = finalHosts
             /\ keysIssued' = keysIssued
             /\ currentHostApiKey' = currentHostApiKey]_vars
    /\ [](Len(finalHosts) = OkCount)
    /\ [](pc = "done" => Len(csvRows) = OkCount)
    /\ [](Faithful =>
             /\ \A k \in 1..Len(finalHosts) : finalHosts[k].id \notin NoUserHosts
             /\ \A k \in 1..Len(csvRows) : csvRows[k].hostId \notin NoUserHosts)

\* after a host with a record and two failed fetches, the response for the
\* fourth host held no user: the run ended without a refresh, the counter
\* at 0, and the output holds the one row of the first host
C37_Witness ==
    /\ pc = "done"
    /\ events = <<"ok", "fail", "fail", "nouser">>
    /\ Faithful
    /\ consecutiveHostErrors = 0
    /\ Len(csvRows) = 1
    /\ csvRows[1].hostId = requested[1]
    /\ NoUserHosts = {requested[4]}

\* the step in which a request of the running pagination fails
PageRequestFails ==
    /\ pc \in {"reviewsPage", "maxOffset"}
    /\ lastPage' = "error"

\* the reviews of the pages of the running Airbnb pagination before offset
PagesBefore(off) ==
    [k \in 1..(off \div limit) |->
        Review(properties[itemIndex], (k - 1) * limit)]

\* C38: when a page request fails, the Airbnb pagination stops at that
\* offset and returns the reviews of the pages before it, which become
\* reviews of the file; the Booking pagination returns nothing for the
\* hotel, whatever pages it had fetched.  Either way processCsvFile goes on
\* with its loop, which ends only when no property / hotel is left.
C38_PageFailure ==
    [][/\ PageRequestFails /\ scraper = "airbnb" =>
             /\ fetchedReviews = PagesBefore(pageOffset)
             /\ allReviews' = allReviews \o PagesBefore(pageOffset)
             /\ pageOffset' = pageOffset
             /\ pc' = "itemDelay"
       /\ PageRequestFails /\ scraper = "booking" =>
             /\ allReviews' = allReviews
             /\ pc' = "itemDelay"
       /\ pc = "itemDelay" => pc' = "itemLoop" /\ itemIndex' = itemIndex
       /\ pc = "itemLoop" /\ itemIndex < Len(properties) =>
             /\ pc' \in {"reviewsPage", "maxOffset"}
             /\ itemIndex' = itemIndex + 1]_vars

\* the second page of the first of two hotels failed: the review of its
\* first page is not among the reviews of the file, and the second hotel is
\* still to come
C38_Witness ==
    /\ scraper = "booking"
    /\ pc = "itemDelay"
    /\ lastPage = "error"
    /\ Len(fetchedReviews) = 1
    /\ pageOffset = rows
    /\ allReviews = <<>>
    /\ itemIndex = 1
    /\ Len(properties) = 2

====================
